---------------------------- MODULE Spec2Model ----------------------------
(***************************************************************************)
(* A model of the @tixbit/sdk client (src/src/client.ts): the identifier   *)
(* normalizer, the event and listing normalizers and the request facade.   *)
(*                                                                         *)
(* JavaScript values are tagged records; a string is a sequence of         *)
(* one-character strings, so that trimming, regular-expression matching,   *)
(* percent-encoding and date formatting are computed character by          *)
(* character.  A finite number v is kept as two limbs, v = hi * MsPerDay + *)
(* lo with 0 <= lo < MsPerDay, because epoch milliseconds exceed the       *)
(* 32-bit integers of the model checker.  Only integral numbers are        *)
(* modelled.  A function of the program that can throw returns an outcome: *)
(* Return(v) or Throw(error name).                                         *)
(***************************************************************************)
EXTENDS Integers, Sequences, FiniteSets, TLC

VARIABLES
    op,       \* the function or facade operation being exercised
    arg,      \* its argument
    pc,       \* "call": about to run, "await": request in flight, "done": settled
    fetched,  \* the requests handed to fetch so far, in order
    client,   \* the TixBitClient: baseUrl, timeoutMs, apiKey
    ret       \* the outcome: Pending, Return(v) or Throw(e)

vars == <<op, arg, pc, fetched, client, ret>>

----------------------------------------------------------------------------
(* JavaScript values                                                       *)

MsPerDay == 86400000

Undefined == [t |-> "undefined"]
Null == [t |-> "null"]
Bool(b) == [t |-> "boolean", b |-> b]
Str(s) == [t |-> "string", s |-> s]
\* the finite number hi * MsPerDay + lo
Num2(hi, lo) == [t |-> "number", fin |-> TRUE, hi |-> hi, lo |-> lo]
\* the finite number k, for a k the model checker can hold
Num(k) == Num2(k \div MsPerDay, k % MsPerDay)
\* +Infinity (sign = 1) or -Infinity (sign = -1): JSON.parse("1e999")
Infinite(sign) == [t |-> "number", fin |-> FALSE, sign |-> sign]
Arr(a) == [t |-> "array", a |-> a]
Obj(o) == [t |-> "object", o |-> o]
EmptyObj == Obj(<<>>)

Pending == [t |-> "pending"]
Return(v) == [t |-> "return", v |-> v]
Throw(e) == [t |-> "throw", err |-> e]

IsString(v) == v.t = "string"
IsNumber(v) == v.t = "number"
IsFiniteNumber(v) == v.t = "number" /\ v.fin
IsArray(v) == v.t = "array"
\* typeof v === "object": objects, arrays and null
TypeofObject(v) == v.t \in {"object", "array", "null"}
IsZero(v) == IsFiniteNumber(v) /\ v.hi = 0 /\ v.lo = 0
IsNegative(v) == IF v.fin THEN v.hi < 0 ELSE v.sign < 0

\* ToBoolean: undefined, null, false, 0 and "" are falsy (NaN cannot come
\* out of JSON.parse and is not modelled)
Truthy(v) ==
    CASE v.t = "undefined" -> FALSE
      [] v.t = "null" -> FALSE
      [] v.t = "boolean" -> v.b
      [] v.t = "string" -> Len(v.s) > 0
      [] v.t = "number" -> ~IsZero(v)
      [] OTHER -> TRUE

\* v ?? w
Coalesce(v, w) == IF v.t \in {"undefined", "null"} THEN w ELSE v

\* o.f : property access on a non-nullish value; only the own data
\* properties of plain objects are modelled
Get(v, f) ==
    IF v.t = "object" /\ f \in DOMAIN v.o THEN v.o[f] ELSE Undefined

IsNullish(v) == v.t \in {"undefined", "null"}

----------------------------------------------------------------------------
(* Characters and strings                                                  *)

LowerAlpha ==
    {"a", "b", "c", "d", "e", "f", "g", "h", "i", "j", "k", "l", "m",
     "n", "o", "p", "q", "r", "s", "t", "u", "v", "w", "x", "y", "z"}
UpperAlpha ==
    {"A", "B", "C", "D", "E", "F", "G", "H", "I", "J", "K", "L", "M",
     "N", "O", "P", "Q", "R", "S", "T", "U", "V", "W", "X", "Y", "Z"}
Digits == {"0", "1", "2", "3", "4", "5", "6", "7", "8", "9"}
\* an unpaired UTF-16 surrogate code unit
LoneSurrogate == "U+D800"

IsWhiteSpace(c) == c \in {" ", "\t", "\n"}
\* [a-z] without the i flag
PrefixChars_caseSensitive == LowerAlpha

\* [a-z] under the i flag
PrefixChars == LowerAlpha \cup UpperAlpha
\* [A-Z0-9] under the i flag
SuffixChars == UpperAlpha \cup LowerAlpha \cup Digits

RECURSIVE TrimStart(_)
TrimStart(s) ==
    IF s # <<>> /\ IsWhiteSpace(Head(s)) THEN TrimStart(Tail(s)) ELSE s

RECURSIVE TrimEnd(_)
TrimEnd(s) ==
    IF s # <<>> /\ IsWhiteSpace(s[Len(s)])
    THEN TrimEnd(SubSeq(s, 1, Len(s) - 1))
    ELSE s

\* String.prototype.trim
Trim(s) == TrimEnd(TrimStart(s))

\* the length of the longest run of characters of class that starts at
\* position i of s
RECURSIVE RunLen(_, _, _)
RunLen(s, i, class) ==
    IF i <= Len(s) /\ s[i] \in class THEN 1 + RunLen(s, i + 1, class) ELSE 0

PrefixMinLen == 5
SuffixMinLen == 6

\* the same match giving back the whole matched text instead of group 2
MatchProviderPrefixed_wholeMatch(s) ==
    LET longest == RunLen(s, 1, PrefixChars)
        ok(n) == /\ n >= PrefixMinLen
                 /\ n + 1 <= Len(s)
                 /\ s[n + 1] = "-"
                 /\ LET m == RunLen(s, n + 2, SuffixChars)
                    IN  /\ m >= SuffixMinLen
                        /\ n + 1 + m = Len(s)
    IN  IF \E n \in 1..longest : ok(n) THEN Str(s) ELSE Undefined

\* trimmed.match(/^([a-z]{5,})-([A-Z0-9]{6,})$/i): the second group, or
\* Undefined when there is no match.  The first group is matched greedily
\* and given back one character at a time; the second must end the input.
MatchProviderPrefixed(s) ==
    LET longest == RunLen(s, 1, PrefixChars)
        ok(n) == /\ n >= PrefixMinLen
                 /\ n + 1 <= Len(s)
                 /\ s[n + 1] = "-"
                 /\ LET m == RunLen(s, n + 2, SuffixChars)
                    IN  /\ m >= SuffixMinLen
                        /\ n + 1 + m = Len(s)
        hits == {n \in 1..longest : ok(n)}
    IN  IF hits = {}
        THEN Undefined
        ELSE LET n == CHOOSE k \in hits : \A j \in hits : j <= k
             IN  Str(SubSeq(s, n + 2, Len(s)))

\* the same function with the match taken on the untrimmed input
normalizeExternalEventId_matchUntrimmed(eventId) ==
    IF ~Truthy(eventId) THEN Return(eventId)
    ELSE IF ~IsString(eventId) THEN Throw("TypeError")
    ELSE LET m == MatchProviderPrefixed(eventId.s)
         IN  IF Truthy(m) THEN Return(m) ELSE Return(Str(Trim(eventId.s)))

normalizeExternalEventId(eventId) ==
    IF ~Truthy(eventId) THEN Return(eventId)
    ELSE IF ~IsString(eventId) THEN Throw("TypeError")
    ELSE LET trimmed == Trim(eventId.s)
             m == MatchProviderPrefixed(trimmed)
         IN  IF Truthy(m) THEN Return(m) ELSE Return(Str(trimmed))

----------------------------------------------------------------------------
(* The client and its configuration                                        *)

DEFAULT_BASE_URL ==
    <<"h", "t", "t", "p", "s", ":", "/", "/", "t", "i", "x", "b", "i", "t", ".",
      "c", "o", "m">>

DEFAULT_TIMEOUT_MS == 15000

\* replace(/\/+$/, ""): the string without its trailing slashes
RECURSIVE StripTrailingSlashes(_)
StripTrailingSlashes(s) ==
    IF s # <<>> /\ s[Len(s)] = "/"
    THEN StripTrailingSlashes(SubSeq(s, 1, Len(s) - 1))
    ELSE s

\* new TixBitClient(config)
TixBitClient(config) ==
    [baseUrl |-> StripTrailingSlashes(Coalesce(Get(config, "baseUrl"), Str(DEFAULT_BASE_URL)).s),
     timeoutMs |-> Coalesce(Get(config, "timeoutMs"), Num(DEFAULT_TIMEOUT_MS)),
     apiKey |-> Get(config, "apiKey")]

----------------------------------------------------------------------------
(* Inputs of the identifier normalizer: concatenations of at most          *)
(* MaxIdSegments segments, the segments straddling the two run-length      *)
(* thresholds of the pattern.                                              *)

MaxIdSegments == 4

IdSegments ==
    { <<" ">>, <<"-">>, <<"_">>, <<"/">>,
      <<"p", "r", "o", "v">>,
      <<"P", "r", "o", "v", "i">>,
      <<"3", "6", "P", "B", "9">>,
      <<"3", "6", "p", "b", "9", "z">> }

\* arg is the string s followed by at most k segments
RECURSIVE IdComposed(_, _)
IdComposed(s, k) ==
    \/ arg = Str(s)
    \/ k > 0 /\ \E seg \in IdSegments : IdComposed(s \o seg, k - 1)

----------------------------------------------------------------------------
(* SpecId: normalizeExternalEventId applied to every identifier string     *)

InitId ==
    /\ op = "normalizeExternalEventId"
    /\ IdComposed(<<>>, MaxIdSegments)
    /\ pc = "call"
    /\ fetched = <<>>
    /\ client = TixBitClient(EmptyObj)
    /\ ret = Pending

ApplyNormalizeId ==
    /\ op = "normalizeExternalEventId"
    /\ pc = "call"
    /\ ret' = normalizeExternalEventId(arg)
    /\ pc' = "done"
    /\ UNCHANGED <<op, arg, fetched, client>>

NextId == ApplyNormalizeId

SpecId == InitId /\ [][NextId]_vars

IdDone == op = "normalizeExternalEventId" /\ pc = "done"

\* C1: identifier normalization is idempotent: normalizing the value that
\* normalizeExternalEventId returned gives that value again.
C1_Idempotent ==
    IdDone => /\ ret.t = "return"
              /\ normalizeExternalEventId(ret.v) = ret

\* a whitespace-padded provider-prefixed identifier has been normalized to a
\* value different from the input
C1_Witness ==
    /\ IdDone
    /\ ret.t = "return"
    /\ Len(arg.s) > 0
    /\ IsWhiteSpace(arg.s[1])
    /\ Len(ret.v.s) >= 6
    /\ Len(ret.v.s) < Len(arg.s) - 5


\* SubSeq(s, i, j) is s without its leading and trailing white space
C2_IsTrimOf(s, i, j) ==
    /\ \A k \in 1..(i - 1) : IsWhiteSpace(s[k])
    /\ \A k \in (j + 1)..Len(s) : IsWhiteSpace(s[k])
    /\ i <= j => ~IsWhiteSpace(s[i]) /\ ~IsWhiteSpace(s[j])
    /\ i > j => i = Len(s) + 1 /\ j = Len(s)

\* t is <alphabetic run of length >= 5>-<alphanumeric run of length >= 6>
\* with the hyphen at position k
C2_PrefixedAt(t, k) ==
    /\ k - 1 >= 5
    /\ Len(t) - k >= 6
    /\ t[k] = "-"
    /\ \A i \in 1..(k - 1) : t[i] \in LowerAlpha \cup UpperAlpha
    /\ \A i \in (k + 1)..Len(t) : t[i] \in LowerAlpha \cup UpperAlpha \cup Digits

C2_Prefixed(t) == \E k \in 1..Len(t) : C2_PrefixedAt(t, k)

\* C2: normalizeExternalEventId returns exactly the second run when the
\* trimmed input is <alphabetic run, >= 5>-<alphanumeric run, >= 6>, and the
\* trimmed input for every other input (the empty input unchanged); the bare
\* form of a prefixed identifier normalizes to the same value.
C2_StripsExactlyPrefix ==
    IdDone =>
        \E i \in 1..(Len(arg.s) + 1) : \E j \in 0..Len(arg.s) :
            /\ C2_IsTrimOf(arg.s, i, j)
            /\ LET t == SubSeq(arg.s, i, j)
               IN  IF C2_Prefixed(t)
                   THEN \E k \in 1..Len(t) :
                            /\ C2_PrefixedAt(t, k)
                            /\ ret = Return(Str(SubSeq(t, k + 1, Len(t))))
                            /\ normalizeExternalEventId(Str(SubSeq(t, k + 1, Len(t)))) = ret
                   ELSE ret = Return(Str(t))

\* a mixed-case provider prefix has been stripped from an unpadded identifier
C2_Witness ==
    /\ IdDone
    /\ C2_Prefixed(arg.s)
    /\ arg.s[1] \in UpperAlpha
    /\ ret = Return(Str(<<"3", "6", "p", "b", "9", "z">>))

----------------------------------------------------------------------------
(* Scalar coercions and conversions to string                              *)

str(v) == IF IsString(v) /\ Len(v.s) > 0 THEN v ELSE Null

\* num that accepts every value of type number
num_anyNumber(v) == IF IsNumber(v) THEN v ELSE Null

num(v) == IF IsNumber(v) /\ IsFiniteNumber(v) THEN v ELSE Null

Digit(n) == <<"0", "1", "2", "3", "4", "5", "6", "7", "8", "9">>[n + 1]

\* the decimal digits of the non-negative number hi * MsPerDay + lo
RECURSIVE DecimalDigits(_, _)
DecimalDigits(hi, lo) ==
    IF hi = 0 /\ lo < 10
    THEN <<Digit(lo)>>
    ELSE LET w == (hi % 10) * MsPerDay + lo
         IN  Append(DecimalDigits(hi \div 10, w \div 10), Digit(w % 10))

\* Number.prototype.toString for the numbers modelled (integers below 1e21)
NumberToString(v) ==
    IF ~v.fin
    THEN IF v.sign < 0
         THEN <<"-", "I", "n", "f", "i", "n", "i", "t", "y">>
         ELSE <<"I", "n", "f", "i", "n", "i", "t", "y">>
    ELSE IF v.hi >= 0
    THEN DecimalDigits(v.hi, v.lo)
    ELSE IF v.lo = 0
    THEN <<"-">> \o DecimalDigits(-v.hi, 0)
    ELSE <<"-">> \o DecimalDigits(-v.hi - 1, MsPerDay - v.lo)

\* ToString of ECMAScript, as a template literal or String(v) applies it
RECURSIVE JsToString(_)
RECURSIVE JoinElements(_)
JoinElements(a) ==
    IF a = <<>> THEN <<>>
    ELSE LET h == IF IsNullish(Head(a)) THEN <<>> ELSE JsToString(Head(a))
         IN  IF Len(a) = 1 THEN h ELSE h \o <<",">> \o JoinElements(Tail(a))

JsToString(v) ==
    CASE v.t = "undefined" -> <<"u", "n", "d", "e", "f", "i", "n", "e", "d">>
      [] v.t = "null" -> <<"n", "u", "l", "l">>
      [] v.t = "boolean" -> IF v.b THEN <<"t", "r", "u", "e">>
                                   ELSE <<"f", "a", "l", "s", "e">>
      [] v.t = "string" -> v.s
      [] v.t = "number" -> NumberToString(v)
      [] v.t = "array" -> JoinElements(v.a)
      [] v.t = "object" ->
            <<"[", "o", "b", "j", "e", "c", "t", " ", "O", "b", "j", "e", "c", "t", "]">>

----------------------------------------------------------------------------
(* new Date(v).toISOString()                                               *)

\* the largest day number of a valid time value: 8.64e15 ms
MaxDay == 100000000

\* DayFromYear of ECMAScript: the day number of 1 January of year y
DayFromYear(y) ==
    365 * (y - 1970) + ((y - 1969) \div 4) - ((y - 1901) \div 100)
        + ((y - 1601) \div 400)

DaysInYear(y) ==
    IF y % 4 # 0 THEN 365
    ELSE IF y % 100 # 0 THEN 366
    ELSE IF y % 400 # 0 THEN 365
    ELSE 366

\* YearFromTime: the year whose first day is the last one not after day d
YearFromDay(d) ==
    LET a == 1970 + (d \div 366)
        b == 1970 + (d \div 365)
        from == (IF a < b THEN a ELSE b) - 1
        to == (IF a < b THEN b ELSE a) + 1
    IN  CHOOSE y \in from..to : DayFromYear(y) <= d /\ d < DayFromYear(y + 1)

\* the day numbers within the year on which the twelve months start
MonthStarts(leap) ==
    <<0, 31, 59 + leap, 90 + leap, 120 + leap, 151 + leap, 181 + leap,
      212 + leap, 243 + leap, 273 + leap, 304 + leap, 334 + leap>>

\* MonthFromTime, 1..12, for a day within the year
MonthFromDayInYear(n, leap) ==
    CHOOSE m \in 1..12 :
        /\ MonthStarts(leap)[m] <= n
        /\ m < 12 => n < MonthStarts(leap)[m + 1]

\* n in exactly w decimal digits, n below 10^w
RECURSIVE Pad(_, _)
Pad(n, w) == IF w = 0 THEN <<>> ELSE Append(Pad(n \div 10, w - 1), Digit(n % 10))

\* TimeClip: a finite time value of magnitude at most 8.64e15 ms
ValidTime(v) ==
    /\ IsFiniteNumber(v)
    /\ v.hi >= -MaxDay
    /\ v.hi < MaxDay \/ (v.hi = MaxDay /\ v.lo = 0)

\* new Date(v).toISOString(): YYYY-MM-DDTHH:mm:ss.sssZ, the year in six
\* signed digits outside 0..9999; RangeError for an invalid time value
toISOString(v) ==
    IF ~ValidTime(v) THEN Throw("RangeError")
    ELSE LET y == YearFromDay(v.hi)
             n == v.hi - DayFromYear(y)
             leap == IF DaysInYear(y) = 366 THEN 1 ELSE 0
             m == MonthFromDayInYear(n, leap)
             d == n - MonthStarts(leap)[m] + 1
             year == IF y >= 0 /\ y <= 9999 THEN Pad(y, 4)
                     ELSE IF y < 0 THEN <<"-">> \o Pad(-y, 6)
                     ELSE <<"+">> \o Pad(y, 6)
         IN  Return(Str(
                 year \o <<"-">> \o Pad(m, 2) \o <<"-">> \o Pad(d, 2) \o <<"T">>
                 \o Pad(v.lo \div 3600000, 2) \o <<":">>
                 \o Pad((v.lo \div 60000) % 60, 2) \o <<":">>
                 \o Pad((v.lo \div 1000) % 60, 2) \o <<".">>
                 \o Pad(v.lo % 1000, 3) \o <<"Z">>))

----------------------------------------------------------------------------
(* Event normalizer                                                        *)

resolveDate(e) ==
    LET date == Get(e, "date")
        dateMs == Get(e, "date_ms")
        month == Get(date, "month")
        day == Get(date, "day")
        year == Get(date, "year")
    IN  IF IsString(date) THEN Return(date)
        ELSE IF IsNumber(date) THEN toISOString(date)
        ELSE IF /\ Truthy(date) /\ TypeofObject(date)
                /\ Truthy(month) /\ Truthy(day) /\ Truthy(year)
        THEN Return(Str(JsToString(month) \o <<" ">> \o JsToString(day)
                        \o <<",", " ">> \o JsToString(year)))
        ELSE IF IsNumber(dateMs) THEN toISOString(dateMs)
        ELSE Return(Str(<<>>))

\* normalizeInventory without the ?? 0 of the individual values
normalizeInventory_noDefault(raw) ==
    IF ~Truthy(raw) \/ ~TypeofObject(raw)
    THEN Obj([total_available |-> Num(0), min_price |-> Num(0), max_price |-> Num(0)])
    ELSE Obj([total_available |-> num(Get(raw, "total_available")),
              min_price |-> num(Get(raw, "min_price")),
              max_price |-> num(Get(raw, "max_price"))])

normalizeInventory(raw) ==
    IF ~Truthy(raw) \/ ~TypeofObject(raw)
    THEN Obj([total_available |-> Num(0), min_price |-> Num(0), max_price |-> Num(0)])
    ELSE Obj([total_available |-> Coalesce(num(Get(raw, "total_available")), Num(0)),
              min_price |-> Coalesce(num(Get(raw, "min_price")), Num(0)),
              max_price |-> Coalesce(num(Get(raw, "max_price")), Num(0))])

\* str(e.a) ?? str(e.b) ?? dflt
StrOr2(e, a, b, dflt) == Coalesce(str(Get(e, a)), Coalesce(str(Get(e, b)), dflt))

\* the resolution order of rawId with the generic id field tried first
rawId_idFirst(e) ==
    Coalesce(str(Get(e, "id")),
             StrOr2(e, "external_event_id", "externalEventId", Str(<<>>)))

rawId(e) ==
    Coalesce(str(Get(e, "external_event_id")),
             StrOr2(e, "externalEventId", "id", Str(<<>>)))

normalizeEvent(raw) ==
    IF IsNullish(raw) THEN Throw("TypeError")
    ELSE
    LET externalEventId == normalizeExternalEventId(rawId(raw)).v
        date == resolveDate(raw)
    IN  IF date.t = "throw" THEN date
        ELSE Return(Obj(
            [id |-> externalEventId,
             external_event_id |-> externalEventId,
             slug |-> Coalesce(str(Get(raw, "slug")), externalEventId),
             name |-> StrOr2(raw, "name", "performer", Str(<<>>)),
             date |-> date.v,
             venue_name |-> StrOr2(raw, "venue_name", "venueName", Null),
             venue_city |-> StrOr2(raw, "venue_city", "venueCity", Null),
             venue_state |-> StrOr2(raw, "venue_state", "venueState", Null),
             image_url |-> StrOr2(raw, "image_url", "imageUrl", Null),
             category_name |-> StrOr2(raw, "category_name", "categoryName", Null),
             category_event_type |->
                 StrOr2(raw, "category_event_type", "categoryEventType", Null),
             has_listings |-> Bool(Truthy(Get(raw, "has_listings"))),
             inventory |-> normalizeInventory(Get(raw, "inventory"))]))

----------------------------------------------------------------------------
(* SpecDate: resolveDate applied to event records carrying every encoding  *)
(* of the date                                                             *)

MaxDayOffset == 800

\* 2023-11-14T22:13:20.000Z
SampleEpoch == Num2(19675, 80000000)

SampleIso ==
    <<"2", "0", "2", "6", "-", "0", "3", "-", "1", "6", "T", "1", "9", ":",
      "0", "0", ":", "0", "0", ".", "0", "0", "0", "Z">>

June == <<"J", "u", "n", "e">>
Y2025 == <<"2", "0", "2", "5">>

EpochDays ==
    (-MaxDayOffset..MaxDayOffset)
        \cup {19675, -MaxDay - 1, -MaxDay, MaxDay - 1, MaxDay, MaxDay + 1}

EpochValues ==
    { Num2(d, ms) : d \in EpochDays, ms \in {0, 80000000, MsPerDay - 1} }
        \cup {Infinite(1), Infinite(-1)}

\* the fields of a structured date, each absent, a string or mistyped
DateObjects ==
    { Obj(o) : o \in UNION { [D -> {Str(June), Str(<<"1">>), Str(Y2025),
                                        Str(<<>>), Num(6), Num(0), EmptyObj}]
                               : D \in SUBSET {"month", "day", "year"} } }

DateValues ==
    { Str(SampleIso), Str(<<>>), Str(June), Null, Bool(TRUE), Arr(<<>>),
      Arr(<<Str(June)>>) }

DateMsValues == { SampleEpoch, Num(0), Num2(MaxDay, 1), Infinite(1), Str(SampleIso), Null }

\* the record with field f set to v, or without it when v is Undefined
Field(f, v) == IF v = Undefined THEN <<>> ELSE (f :> v)

DateEvents ==
    { Obj(Field("date", d) @@ Field("date_ms", m)) :
        d \in {Undefined} \cup DateValues \cup EpochValues \cup DateObjects,
        m \in {Undefined} \cup DateMsValues }

InitDate ==
    /\ op = "resolveDate"
    /\ arg \in DateEvents
    /\ pc = "call"
    /\ fetched = <<>>
    /\ client = TixBitClient(EmptyObj)
    /\ ret = Pending

ApplyResolveDate ==
    /\ op = "resolveDate"
    /\ pc = "call"
    /\ ret' = resolveDate(arg)
    /\ pc' = "done"
    /\ UNCHANGED <<op, arg, fetched, client>>

NextDate == ApplyResolveDate

SpecDate == InitDate /\ [][NextDate]_vars

DateDone == op = "resolveDate" /\ pc = "done"

C7_AllDigits(s, from, to) == \A i \in from..to : s[i] \in Digits

C7_Value(s, i) ==
    LET v(c) == CHOOSE n \in 0..9 : Digit(n) = c
    IN  10 * v(s[i]) + v(s[i + 1])

\* s is YYYY-MM-DDTHH:mm:ss.sssZ with fields in range, the year possibly in
\* the expanded form of a sign and six digits
C7_IsIso8601(s) ==
    \E k \in {0, 3} :
        LET b == SubSeq(s, 5 + k, Len(s))
        IN  /\ Len(s) = 24 + k
            /\ k = 0 => C7_AllDigits(s, 1, 4)
            /\ k = 3 => s[1] \in {"+", "-"} /\ C7_AllDigits(s, 2, 7)
            /\ b[1] = "-" /\ b[4] = "-" /\ b[7] = "T" /\ b[10] = ":"
            /\ b[13] = ":" /\ b[16] = "." /\ b[20] = "Z"
            /\ C7_AllDigits(b, 2, 3) /\ C7_AllDigits(b, 5, 6)
            /\ C7_AllDigits(b, 8, 9) /\ C7_AllDigits(b, 11, 12)
            /\ C7_AllDigits(b, 14, 15) /\ C7_AllDigits(b, 17, 19)
            /\ C7_Value(b, 2) \in 1..12
            /\ C7_Value(b, 5) \in 1..31
            /\ C7_Value(b, 8) \in 0..23
            /\ C7_Value(b, 11) \in 0..59
            /\ C7_Value(b, 14) \in 0..59

C7_ReturnsIso == ret.t = "return" /\ IsString(ret.v) /\ C7_IsIso8601(ret.v.s)

C7_HasMonthDayYear(d) ==
    /\ d.t = "object"
    /\ Truthy(Get(d, "month")) /\ Truthy(Get(d, "day")) /\ Truthy(Get(d, "year"))

\* C7: the date is resolved in priority order: a string date verbatim; else
\* every numeric date epoch as a valid ISO-8601 string; else a date object
\* with month, day and year as "<month> <day>, <year>"; else every numeric
\* date_ms epoch as a valid ISO-8601 string; else the empty string.
C7_DateResolution ==
    DateDone =>
        LET date == Get(arg, "date")
            dateMs == Get(arg, "date_ms")
        IN  IF IsString(date) THEN ret = Return(date)
            ELSE IF IsNumber(date) THEN C7_ReturnsIso
            ELSE IF C7_HasMonthDayYear(date)
            THEN ret = Return(Str(JsToString(Get(date, "month")) \o <<" ">>
                                  \o JsToString(Get(date, "day")) \o <<",", " ">>
                                  \o JsToString(Get(date, "year"))))
            ELSE IF IsNumber(dateMs) THEN C7_ReturnsIso
            ELSE ret = Return(Str(<<>>))

\* the same table with the numeric epochs restricted to valid time values
C7_DateResolutionOfValidTimes ==
    DateDone =>
        LET date == Get(arg, "date")
            dateMs == Get(arg, "date_ms")
        IN  IF IsString(date) THEN ret = Return(date)
            ELSE IF IsNumber(date)
            THEN IF ValidTime(date) THEN C7_ReturnsIso ELSE ret = Throw("RangeError")
            ELSE IF C7_HasMonthDayYear(date)
            THEN ret = Return(Str(JsToString(Get(date, "month")) \o <<" ">>
                                  \o JsToString(Get(date, "day")) \o <<",", " ">>
                                  \o JsToString(Get(date, "year"))))
            ELSE IF IsNumber(dateMs)
            THEN IF ValidTime(dateMs) THEN C7_ReturnsIso ELSE ret = Throw("RangeError")
            ELSE ret = Return(Str(<<>>))

----------------------------------------------------------------------------
(* SpecEvent: normalizeEvent applied to upstream array elements of every   *)
(* JSON type, the objects carrying at most MaxEventFields fields.          *)
(* SpecInventory: the same on records whose inventory takes every shape.   *)

MaxEventFields == 2

PrefixedId == <<"P", "r", "o", "v", "i", "-", "3", "6", "p", "b", "9", "z">>
BareId == <<"3", "6", "P", "B", "9", "Z", "N">>
PaddedPrefixedId == <<" ", "p", "r", "o", "v", "i", "d", "e", "r", "-", "A", "B", "C", "1", "2", "3">>

EventIdFields == {"external_event_id", "externalEventId", "id"}

EventTextFields ==
    {"slug", "name", "performer", "venue_name", "venueName", "venue_city",
     "venueCity", "venue_state", "venueState", "image_url", "imageUrl",
     "category_name", "categoryName", "category_event_type", "categoryEventType"}

InventoryObjects ==
    { Obj(o) : o \in UNION { [D -> {Num(12), Num(0), Num(-3), Infinite(1), Str(<<"x">>), Null}]
                               : D \in SUBSET {"total_available", "min_price", "max_price"} } }

InventoryValues ==
    InventoryObjects \cup
        {Undefined, Null, Str(<<"x">>), Num(5), Num(0), Bool(TRUE), Arr(<<>>), Arr(<<Num(5)>>)}

\* the values the model gives an upstream event field
EventFieldValues(f) ==
    CASE f \in EventIdFields ->
            {Str(PrefixedId), Str(BareId), Str(PaddedPrefixedId), Str(<<>>), Num(7)}
      [] f \in EventTextFields -> {Str(<<"x">>), Str(<<>>), Num(7)}
      [] f = "date" ->
            {Str(SampleIso), SampleEpoch, Num2(MaxDay, 1),
             Obj([month |-> Str(June), day |-> Str(<<"1">>), year |-> Str(Y2025)])}
      [] f = "date_ms" -> {SampleEpoch, Infinite(1)}
      [] f = "has_listings" -> {Bool(TRUE), Bool(FALSE), Str(<<"x">>), Num(0)}
      [] f = "inventory" ->
            {Null, Arr(<<>>), EmptyObj,
             Obj([total_available |-> Num(12), min_price |-> Num(17), max_price |-> Num(250)]),
             Obj([total_available |-> Num(-3), min_price |-> Str(<<"x">>)])}

EventFieldOrder ==
    <<"external_event_id", "externalEventId", "id", "slug", "name", "performer",
      "date", "date_ms", "venue_name", "venueName", "venue_city", "venueCity",
      "venue_state", "venueState", "image_url", "imageUrl", "category_name",
      "categoryName", "category_event_type", "categoryEventType", "has_listings",
      "inventory">>

\* arg is the object r with at most k more fields, taken from position
\* `from` of EventFieldOrder onwards
RECURSIVE EventComposed(_, _, _)
EventComposed(r, from, k) ==
    \/ arg = Obj(r)
    \/ k > 0 /\ \E i \in from..Len(EventFieldOrder) :
                    \E v \in EventFieldValues(EventFieldOrder[i]) :
                        EventComposed(r @@ (EventFieldOrder[i] :> v), i + 1, k - 1)

InitEvent ==
    /\ op = "normalizeEvent"
    /\ \/ EventComposed(<<>>, 1, MaxEventFields)
       \/ arg \in {Null, Num(7), Str(<<"x">>), Arr(<<>>), Bool(TRUE)}
    /\ pc = "call"
    /\ fetched = <<>>
    /\ client = TixBitClient(EmptyObj)
    /\ ret = Pending

InitInventory ==
    /\ op = "normalizeEvent"
    /\ arg \in { Obj(Field("inventory", v)) : v \in InventoryValues }
    /\ pc = "call"
    /\ fetched = <<>>
    /\ client = TixBitClient(EmptyObj)
    /\ ret = Pending

ApplyNormalizeEvent ==
    /\ op = "normalizeEvent"
    /\ pc = "call"
    /\ ret' = normalizeEvent(arg)
    /\ pc' = "done"
    /\ UNCHANGED <<op, arg, fetched, client>>

NextEvent == ApplyNormalizeEvent

SpecEvent == InitEvent /\ [][NextEvent]_vars

SpecInventory == InitInventory /\ [][NextEvent]_vars

EventDone == op = "normalizeEvent" /\ pc = "done"

C5_NonEmptyString(v) == v.t = "string" /\ v.s # <<>>

\* the first non-empty string among external_event_id, externalEventId and
\* id, or the empty string
C5_FirstId(e) ==
    IF C5_NonEmptyString(Get(e, "external_event_id")) THEN Get(e, "external_event_id")
    ELSE IF C5_NonEmptyString(Get(e, "externalEventId")) THEN Get(e, "externalEventId")
    ELSE IF C5_NonEmptyString(Get(e, "id")) THEN Get(e, "id")
    ELSE Str(<<>>)

\* C5: in every event record normalizeEvent produces, id and
\* external_event_id are equal, and both are the normalization of the first
\* non-empty string among external_event_id, externalEventId and id, or the
\* empty string when none is a non-empty string.
C5_IdResolution ==
    EventDone /\ ret.t = "return" =>
        /\ ret.v.o.id = ret.v.o.external_event_id
        /\ Return(ret.v.o.id) = normalizeExternalEventId(C5_FirstId(arg))

\* an event whose generic id is provider-prefixed and whose explicit external
\* id is present but empty has been normalized to the stripped generic id
C5_Witness ==
    /\ EventDone
    /\ ret.t = "return"
    /\ Get(arg, "external_event_id") = Str(<<>>)
    /\ Get(arg, "id") = Str(PrefixedId)
    /\ ret.v.o.id = Str(<<"3", "6", "p", "b", "9", "z">>)
    /\ ret.v.o.external_event_id = Str(<<"3", "6", "p", "b", "9", "z">>)

C6_StringOrNull(v) == v = Null \/ (v.t = "string" /\ v.s # <<>>)

\* C6: normalizeEvent never raises, for any JSON value that can be an
\* element of the upstream events array, and returns a record whose every
\* field has its type.
C6_EventTotal ==
    EventDone =>
        /\ ret.t = "return"
        /\ ret.v.o.id.t = "string" /\ ret.v.o.slug.t = "string"
        /\ ret.v.o.name.t = "string" /\ ret.v.o.date.t = "string"
        /\ \A f \in {"venue_name", "venue_city", "venue_state", "image_url",
                     "category_name", "category_event_type"} :
               C6_StringOrNull(ret.v.o[f])
        /\ ret.v.o.has_listings.t = "boolean"
        /\ \A f \in {"total_available", "min_price", "max_price"} :
               IsFiniteNumber(ret.v.o.inventory.o[f])

C10_InventoryFields == {"total_available", "min_price", "max_price"}

\* C10: the output inventory values are each >= 0, and 0 when the upstream
\* inventory or the individual value is absent.
C10_NonNegative ==
    EventDone /\ ret.t = "return" =>
        \A f \in C10_InventoryFields :
            LET out == ret.v.o.inventory.o[f]
                up == Get(Get(arg, "inventory"), f)
            IN  /\ IsFiniteNumber(out) /\ ~IsNegative(out)
                /\ up = Undefined => out = Num(0)

\* C10 as amended: each output inventory value is the upstream value when
\* that is a finite number and 0 otherwise, so it is >= 0 unless the upstream
\* value is a negative number.
C10_PassThroughOrZero ==
    EventDone /\ ret.t = "return" =>
        \A f \in C10_InventoryFields :
            LET out == ret.v.o.inventory.o[f]
                up == Get(Get(arg, "inventory"), f)
            IN  /\ IsFiniteNumber(out)
                /\ IF up.t = "number" /\ up.fin THEN out = up ELSE out = Num(0)
                /\ ~(up.t = "number" /\ up.fin /\ up.hi < 0) => ~IsNegative(out)

\* an inventory with a positive value, an absent value and a non-numeric
\* value has been normalized
C10_Witness ==
    /\ EventDone
    /\ ret.t = "return"
    /\ Get(arg, "inventory").t = "object"
    /\ Get(Get(arg, "inventory"), "total_available") = Num(12)
    /\ Get(Get(arg, "inventory"), "min_price") = Undefined
    /\ Get(Get(arg, "inventory"), "max_price") = Str(<<"x">>)
    /\ ret.v.o.inventory = Obj([total_available |-> Num(12), min_price |-> Num(0),
                                max_price |-> Num(0)])

----------------------------------------------------------------------------
(* Listing normalizer                                                      *)

\* the source of the commercial fields taken to be the top-level record
\* whatever its shape
ListingAttrs_topLevelOnly(outer) == outer

\* the attributes laid over the top-level record, which fills in the fields
\* the attributes lack
ListingAttrs_topLevelFallback(outer) ==
    IF Get(outer, "attributes").t = "object" /\ outer.t = "object"
    THEN Obj(Get(outer, "attributes").o @@ outer.o)
    ELSE Coalesce(Get(outer, "attributes"), outer)

\* (outer.attributes ?? outer)
ListingAttrs(outer) == Coalesce(Get(outer, "attributes"), outer)

normalizeListing(raw) ==
    IF IsNullish(raw) THEN Throw("TypeError")
    ELSE
    LET outer == raw
        attrs == ListingAttrs(outer)
    IN  Return(Obj(
            [id |-> Coalesce(str(Get(outer, "id")), Coalesce(str(Get(attrs, "id")), Str(<<>>))),
             price |-> Coalesce(num(Get(attrs, "price_per_ticket")),
                                Coalesce(num(Get(attrs, "price")), Num(0))),
             quantity |-> Coalesce(num(Get(attrs, "quantity")),
                                   Coalesce(num(Get(attrs, "available_quantity")), Num(0))),
             quantities_list |-> IF IsArray(Get(attrs, "quantities_list"))
                                 THEN Get(attrs, "quantities_list")
                                 ELSE Arr(<<>>),
             section |-> Coalesce(str(Get(attrs, "section")), Null),
             row |-> Coalesce(str(Get(attrs, "row")), Null),
             seat_numbers |-> Coalesce(str(Get(attrs, "seat_numbers")), Null),
             listing_hash |-> Coalesce(str(Get(attrs, "listing_hash")), Str(<<>>)),
             notes |-> Coalesce(str(Get(attrs, "notes")), Null),
             delivery_method |-> StrOr2(attrs, "delivery_method", "delivery_type", Null),
             splits |-> IF IsArray(Get(attrs, "splits")) THEN Get(attrs, "splits")
                        ELSE Arr(<<>>),
             raw |-> outer]))

----------------------------------------------------------------------------
(* SpecListing: normalizeListing applied to upstream array elements of     *)
(* every JSON type, the objects in the flat and in the nested shape with   *)
(* at most MaxListingFields commercial or placement fields.                *)

MaxListingFields == 2

ListingNumberFields == {"price_per_ticket", "price", "quantity", "available_quantity"}
ListingArrayFields == {"quantities_list", "splits"}
ListingStringFields ==
    {"section", "row", "seat_numbers", "listing_hash", "notes", "delivery_method",
     "delivery_type"}

ListingFields == ListingNumberFields \cup ListingArrayFields \cup ListingStringFields

\* the values the model gives an upstream listing field
ListingFieldValues(f) ==
    CASE f \in ListingNumberFields -> {Num(10), Num(2), Infinite(1), Str(<<"A">>)}
      [] f \in ListingArrayFields ->
            {Arr(<<Num(1), Num(2)>>), Arr(<<>>), Str(<<"A">>), Null}
      [] f \in ListingStringFields -> {Str(<<"A">>), Str(<<"B">>), Str(<<>>), Num(10)}

ListingFieldOrder ==
    <<"price_per_ticket", "price", "quantity", "available_quantity",
      "quantities_list", "section", "row", "seat_numbers", "listing_hash", "notes",
      "delivery_method", "delivery_type", "splits">>

ListingIds == {Undefined, Str(<<"L", "1">>), Num(7)}

FlatListing(id, F) == Obj(Field("id", id) @@ F)
NestedListing(id, F) == Obj(Field("id", id) @@ ("attributes" :> Obj(F)))

\* arg is a listing in the flat or the nested shape whose commercial fields
\* are F with at most k more, from position `from` of ListingFieldOrder on
RECURSIVE ListingComposed(_, _, _)
ListingComposed(F, from, k) ==
    \/ \E id \in ListingIds : arg = FlatListing(id, F) \/ arg = NestedListing(id, F)
    \/ k > 0 /\ \E i \in from..Len(ListingFieldOrder) :
                    \E v \in ListingFieldValues(ListingFieldOrder[i]) :
                        ListingComposed(F @@ (ListingFieldOrder[i] :> v), i + 1, k - 1)

\* listings with fields at the top level and under attributes at once, the
\* two levels holding different values
TopLevelListingFields ==
    { <<>>,
      ("price" :> Num(10)) @@ ("section" :> Str(<<"A">>)) @@ ("notes" :> Str(<<"A">>)),
      ("price_per_ticket" :> Num(10)) @@ ("quantity" :> Num(10))
          @@ ("splits" :> Arr(<<Num(1), Num(2)>>)) @@ ("delivery_type" :> Str(<<"A">>)) }
AttributesListingFields ==
    { <<>>,
      ("price" :> Num(2)) @@ ("section" :> Str(<<"B">>)) @@ ("row" :> Str(<<"B">>)),
      ("available_quantity" :> Num(2)) @@ ("quantities_list" :> Arr(<<Num(2)>>))
          @@ ("delivery_method" :> Str(<<"B">>)) @@ ("listing_hash" :> Str(<<>>)) }
AttributesIds == {Undefined, Str(<<"L", "2">>)}

MixedListing(id, T, aid, A) ==
    Obj(Field("id", id) @@ ("attributes" :> Obj(Field("id", aid) @@ A)) @@ T)

InitListing ==
    /\ op = "normalizeListing"
    /\ \/ ListingComposed(<<>>, 1, MaxListingFields)
       \/ \E id \in ListingIds, aid \in AttributesIds :
             \E T \in TopLevelListingFields, A \in AttributesListingFields :
                 arg = MixedListing(id, T, aid, A)
       \/ arg \in { Obj(("attributes" :> a) @@ ("price" :> Num(10))) :
                       a \in {Null, Num(7), Str(<<"A">>), Arr(<<>>), Bool(FALSE)} }
       \/ arg \in {Null, Num(7), Str(<<"x">>), Arr(<<>>), Bool(TRUE)}
    /\ pc = "call"
    /\ fetched = <<>>
    /\ client = TixBitClient(EmptyObj)
    /\ ret = Pending

ApplyNormalizeListing ==
    /\ op = "normalizeListing"
    /\ pc = "call"
    /\ ret' = normalizeListing(arg)
    /\ pc' = "done"
    /\ UNCHANGED <<op, arg, fetched, client>>

NextListing == ApplyNormalizeListing

SpecListing == InitListing /\ [][NextListing]_vars

ListingDone == op = "normalizeListing" /\ pc = "done"

\* a record restricted to the fields other than f
C8_Without(r, f) == [x \in DOMAIN r \ {f} |-> r[x]]

\* the record is {id, ...F}, F an assignment of commercial/placement fields
C8_IsFlat(v) == v.t = "object" /\ DOMAIN v.o \subseteq ListingFields \cup {"id"}

\* the record is {id, attributes: F}
C8_IsNested(v) ==
    /\ v.t = "object"
    /\ "attributes" \in DOMAIN v.o
    /\ DOMAIN v.o \subseteq {"id", "attributes"}
    /\ v.o.attributes.t = "object"
    /\ DOMAIN v.o.attributes.o \subseteq ListingFields

\* the same id and fields in the other shape
C8_OtherShape(v) ==
    IF C8_IsFlat(v)
    THEN NestedListing(Get(v, "id"), C8_Without(v.o, "id"))
    ELSE FlatListing(Get(v, "id"), v.o.attributes.o)

\* C8: the flat record {id, ...F} and the nested record {id, attributes: F}
\* normalize to Listings that are equal in every field except raw.
C8_ShapeEquivalence ==
    ListingDone /\ (C8_IsFlat(arg) \/ C8_IsNested(arg)) =>
        LET other == normalizeListing(C8_OtherShape(arg))
        IN  /\ ret.t = "return" /\ other.t = "return"
            /\ C8_Without(ret.v.o, "raw") = C8_Without(other.v.o, "raw")
            /\ ret.v.o.raw = arg /\ other.v.o.raw = C8_OtherShape(arg)

\* a nested record with a price and a quantity has been normalized to a
\* Listing carrying them
C8_Witness ==
    /\ ListingDone
    /\ C8_IsNested(arg)
    /\ Get(arg, "id") = Str(<<"L", "1">>)
    /\ arg.o.attributes = Obj([price_per_ticket |-> Num(10), quantity |-> Num(2)])
    /\ ret.t = "return"
    /\ ret.v.o.price = Num(10) /\ ret.v.o.quantity = Num(2)
    /\ ret.v.o.id = Str(<<"L", "1">>)

\* the record the commercial fields are read from
C9_Source(v) == IF IsNullish(Get(v, "attributes")) THEN v ELSE Get(v, "attributes")

C9_IsFinite(v) == v.t = "number" /\ v.fin

\* C9: in every normalized Listing, quantities_list and splits are sequences
\* (the upstream array when it is one, otherwise empty, never null); price
\* and quantity are finite numbers, 0 when the upstream value and its alias
\* are absent, non-numeric or non-finite; section, row, seat_numbers, notes
\* and delivery_method are a non-empty string or null.
C9_ListingFieldTypes ==
    ListingDone /\ ret.t = "return" =>
        LET src == C9_Source(arg)
            out == ret.v.o
        IN  /\ \A f \in {"quantities_list", "splits"} :
                   /\ out[f].t = "array"
                   /\ out[f] = IF Get(src, f).t = "array" THEN Get(src, f) ELSE Arr(<<>>)
            /\ C9_IsFinite(out.price) /\ C9_IsFinite(out.quantity)
            /\ ~C9_IsFinite(Get(src, "price_per_ticket")) /\ ~C9_IsFinite(Get(src, "price"))
                   => out.price = Num(0)
            /\ ~C9_IsFinite(Get(src, "quantity"))
                   /\ ~C9_IsFinite(Get(src, "available_quantity"))
                   => out.quantity = Num(0)
            /\ \A f \in {"section", "row", "seat_numbers", "notes", "delivery_method"} :
                   C6_StringOrNull(out[f])

\* a listing whose price is non-finite and whose splits is not an array has
\* been normalized to price 0 and no splits
C9_Witness ==
    /\ ListingDone
    /\ ret.t = "return"
    /\ Get(C9_Source(arg), "price_per_ticket") = Infinite(1)
    /\ Get(C9_Source(arg), "splits") = Str(<<"A">>)
    /\ ret.v.o.price = Num(0)
    /\ ret.v.o.splits = Arr(<<>>)

----------------------------------------------------------------------------
(* The request facade: URLs, query strings and outbound requests           *)

USER_AGENT == <<"@", "t", "i", "x", "b", "i", "t", "/", "s", "d", "k">>

\* the characters encodeURIComponent leaves as they are
UriUnreserved ==
    LowerAlpha \cup UpperAlpha \cup Digits \cup {"-", "_", ".", "!", "~", "*", "'", "(", ")"}

\* the percent-encoding of the other characters the model uses
PercentEncoded(c) ==
    CASE c = " " -> <<"%", "2", "0">>
      [] c = "/" -> <<"%", "2", "F">>
      [] c = "?" -> <<"%", "3", "F">>
      [] c = "=" -> <<"%", "3", "D">>
      [] c = "&" -> <<"%", "2", "6">>
      [] c = ":" -> <<"%", "3", "A">>
      [] c = "," -> <<"%", "2", "C">>
      [] c = "%" -> <<"%", "2", "5">>
      [] c = "+" -> <<"%", "2", "B">>
      [] c = "#" -> <<"%", "2", "3">>
      [] c = "@" -> <<"%", "4", "0">>
      [] c = "[" -> <<"%", "5", "B">>
      [] c = "]" -> <<"%", "5", "D">>
      [] c = "\t" -> <<"%", "0", "9">>
      [] c = "\n" -> <<"%", "0", "A">>

RECURSIVE EncodeChars(_)
EncodeChars(s) ==
    IF s = <<>> THEN <<>>
    ELSE (IF Head(s) \in UriUnreserved THEN <<Head(s)>> ELSE PercentEncoded(Head(s)))
             \o EncodeChars(Tail(s))

\* encodeURIComponent(s): URIError on an unpaired surrogate
encodeURIComponent(s) ==
    IF \E i \in 1..Len(s) : s[i] = LoneSurrogate
    THEN Throw("URIError")
    ELSE Return(Str(EncodeChars(s)))

\* the entries qs keeps: v !== undefined && v !== null && v !== ""
QsKept(entries) ==
    SelectSeq(entries, LAMBDA e : ~IsNullish(e[2]) /\ e[2] # Str(<<>>))

\* entries.join("&") of the encoded key=value pairs, or the first throw
RECURSIVE QsJoin(_)
QsJoin(entries) ==
    IF entries = <<>> THEN Return(Str(<<>>))
    ELSE LET k == encodeURIComponent(Head(entries)[1])
             v == encodeURIComponent(JsToString(Head(entries)[2]))
             rest == QsJoin(Tail(entries))
         IN  IF k.t = "throw" THEN k
             ELSE IF v.t = "throw" THEN v
             ELSE IF rest.t = "throw" THEN rest
             ELSE Return(Str(k.v.s \o <<"=">> \o v.v.s
                             \o (IF Len(entries) > 1 THEN <<"&">> ELSE <<>>)
                             \o rest.v.s))

\* TixBitClient.qs
qs(entries) ==
    LET kept == QsKept(entries)
        joined == QsJoin(kept)
    IN  IF joined.t = "throw" THEN joined
        ELSE IF kept = <<>> THEN Return(Str(<<>>))
        ELSE Return(Str(<<"?">> \o joined.v.s))

\* the headers of a request made by TixBitClient.request
RequestHeaders(c) ==
    [Accept |-> <<"a", "p", "p", "l", "i", "c", "a", "t", "i", "o", "n", "/", "j", "s", "o",
          "n">>,
     UserAgent |-> USER_AGENT,
     Authorization |-> IF Truthy(c.apiKey)
                       THEN Str(<<"B", "e", "a", "r", "e", "r", " ">> \o JsToString(c.apiKey))
                       ELSE Undefined]

\* the call fetch(url, {headers, signal}) of TixBitClient.request
Request(c, path) == [url |-> c.baseUrl \o path, headers |-> RequestHeaders(c)]

\* new TixBitApiError(message, status, url), thrown
TixBitApiError(message, status, url) ==
    [t |-> "throw", err |-> "TixBitApiError", message |-> message,
     status |-> status, url |-> url]

\* the limit of text.slice(0, 300)
BodyExcerptLen == 300

\* s.slice(0, n) of a string s, n >= 0
SliceFromStart(s, n) == SubSeq(s, 1, IF Len(s) < n THEN Len(s) ELSE n)

\* the whole body in the message, without the slice
ErrorMessage_wholeBody(resp) ==
    LET text == IF resp.text.t = "throw" THEN <<>> ELSE resp.text.v
    IN  DecimalDigits(0, resp.status) \o <<" ">> \o resp.statusText \o <<":", " ">> \o text

\* `${res.status} ${res.statusText}: ${text.slice(0, 300)}` with
\* text = await res.text().catch(() => "")
ErrorMessage(resp) ==
    LET text == IF resp.text.t = "throw" THEN <<>> ELSE resp.text.v
    IN  DecimalDigits(0, resp.status) \o <<" ">> \o resp.statusText \o <<":", " ">>
            \o SliceFromStart(text, BodyExcerptLen)

\* the longest response body of a failed call
MaxBodyLen == 301

\* a body of n characters whose i-th character is the last digit of i
BodyOfLen(n) == [i \in 1..n |-> Digit(i % 10)]

\* an answer with a status outside 200..299: the status line and what
\* res.text() gives, the body or a failure to read it
StatusResponse(status, statusText, text) ==
    [k |-> "status", status |-> status, statusText |-> statusText, text |-> text]

StatusResponses ==
    { StatusResponse(404, <<"N", "o", "t", " ", "F", "o", "u", "n", "d">>, Return(BodyOfLen(n))) :
          n \in {0, BodyExcerptLen - 1, BodyExcerptLen, MaxBodyLen} }
    \cup { StatusResponse(404, <<"N", "o", "t", " ", "F", "o", "u", "n", "d">>,
                          Return(<<"n", "o", " ", "s", "u", "c", "h", " ", "e", "v", "e", "n", "t">>)),
           StatusResponse(500, <<>>, Throw("TypeError")),
           StatusResponse(429, <<"T", "o", "o", " ", "M", "a", "n", "y", " ", "R", "e", "q", "u", "e", "s", "t", "s">>,
                          Return(<<>>)) }

\* how an outbound call ends: the fetch rejects (network failure), it is
\* aborted by the timeout, it answers with a status outside 200..299, it
\* answers 2xx with a body that is not JSON, or with a JSON body
FailedResponses ==
    { [k |-> "reject"], [k |-> "abort"], [k |-> "badjson"] } \cup StatusResponses

JsonResponse(body) == [k |-> "json", body |-> body]

\* what TixBitClient.request gives its caller for a response
RequestOutcome(req, resp) ==
    CASE resp.k = "reject" -> Throw("TypeError")
      [] resp.k = "abort" -> Throw("AbortError")
      [] resp.k = "status" -> TixBitApiError(ErrorMessage(resp), resp.status, req.url)
      [] resp.k = "badjson" -> Throw("SyntaxError")
      [] resp.k = "json" -> Return(resp.body)

\* raw.map(normalizeEvent): the mapped array, or the first throw
RECURSIVE MapNormalizeEvent(_)
MapNormalizeEvent(a) ==
    IF a = <<>> THEN Return(Arr(<<>>))
    ELSE LET h == normalizeEvent(Head(a))
             rest == MapNormalizeEvent(Tail(a))
         IN  IF h.t = "throw" THEN h
             ELSE IF rest.t = "throw" THEN rest
             ELSE Return(Arr(<<h.v>> \o rest.v.a))

\* raw.map(normalizeListing): the mapped array, or the first throw
RECURSIVE MapNormalizeListing(_)
MapNormalizeListing(a) ==
    IF a = <<>> THEN Return(Arr(<<>>))
    ELSE LET h == normalizeListing(Head(a))
             rest == MapNormalizeListing(Tail(a))
         IN  IF h.t = "throw" THEN h
             ELSE IF rest.t = "throw" THEN rest
             ELSE Return(Arr(<<h.v>> \o rest.v.a))

\* String.prototype.startsWith
StartsWith(s, p) == Len(s) >= Len(p) /\ SubSeq(s, 1, Len(p)) = p

\* String.prototype.includes
Includes(s, p) == \E i \in 0..(Len(s) - Len(p)) : SubSeq(s, i + 1, i + Len(p)) = p

LowerSeq == <<"a", "b", "c", "d", "e", "f", "g", "h", "i", "j", "k", "l", "m", "n", "o", "p",
      "q", "r", "s", "t", "u", "v", "w", "x", "y", "z">>
UpperSeq == <<"A", "B", "C", "D", "E", "F", "G", "H", "I", "J", "K", "L", "M", "N", "O", "P",
      "Q", "R", "S", "T", "U", "V", "W", "X", "Y", "Z">>

UpperChar(c) ==
    IF c \in LowerAlpha
    THEN UpperSeq[CHOOSE i \in 1..Len(LowerSeq) : LowerSeq[i] = c]
    ELSE c

\* String.prototype.toUpperCase
toUpperCase(s) == [i \in 1..Len(s) |-> UpperChar(s[i])]

\* the same function joining with a slash whatever the value starts with
toAbsoluteUrl_alwaysSlash(baseUrl, value) ==
    IF ~Truthy(value) THEN Return(Null)
    ELSE IF ~IsString(value) THEN Throw("TypeError")
    ELSE IF StartsWith(value.s, <<"h", "t", "t", "p", ":", "/", "/">>) \/ StartsWith(value.s, <<"h", "t", "t", "p", "s", ":", "/", "/">>)
    THEN Return(value)
    ELSE Return(Str(baseUrl \o <<"/">> \o value.s))

\* toAbsoluteUrl(baseUrl, value); value.startsWith is not a function for a
\* truthy value that is not a string
toAbsoluteUrl(baseUrl, value) ==
    IF ~Truthy(value) THEN Return(Null)
    ELSE IF ~IsString(value) THEN Throw("TypeError")
    ELSE IF StartsWith(value.s, <<"h", "t", "t", "p", ":", "/",
          "/">>) \/ StartsWith(value.s, <<"h", "t", "t", "p", "s", ":", "/", "/">>)
    THEN Return(value)
    ELSE Return(Str(baseUrl \o (IF StartsWith(value.s, <<"/">>) THEN <<>> ELSE <<"/">>)
                        \o value.s))

----------------------------------------------------------------------------
(* searchEvents and browse                                                 *)

DefaultSearchSize == 25
DefaultBrowseSize == 18

SearchEventsQuery(params) ==
    qs(<< <<<<"q">>, Get(params, "query")>>,
          <<<<"c", "i", "t", "y">>, Get(params, "city")>>,
          <<<<"s", "t", "a", "t", "e">>, Get(params, "state")>>,
          <<<<"c", "a", "t", "e", "g", "o", "r", "y">>, Get(params, "category")>>,
          <<<<"s", "t", "a", "r", "t", "D", "a", "t", "e">>, Get(params, "startDate")>>,
          <<<<"e", "n", "d", "D", "a", "t", "e">>, Get(params, "endDate")>>,
          <<<<"p", "a", "g", "e">>, Get(params, "page")>>,
          <<<<"s", "i", "z", "e">>, Coalesce(Get(params, "size"), Num(DefaultSearchSize))>> >>)

SearchEventsPath(params) ==
    LET query == SearchEventsQuery(params)
    IN  IF query.t = "throw" THEN query
        ELSE Return(Str(<<"/", "a", "p", "i", "/", "e", "v", "e", "n", "t", "s", "/", "s",
              "e", "a", "r", "c", "h">> \o query.v.s))

BrowseQuery(params) ==
    qs(<< <<<<"s", "i", "z", "e">>, Coalesce(Get(params, "size"), Num(DefaultBrowseSize))>>,
          <<<<"c", "o", "n", "t", "e", "x", "t">>, Str(<<"h", "o", "m", "e", "p", "a", "g",
                "e">>)>>,
          <<<<"r", "e", "c", "o", "m", "m", "e", "n", "d", "a", "t", "i", "o",
                "n">>, Str(<<"u", "p", "c", "o", "m", "i", "n", "g">>)>>,
          <<<<"n", "e", "a", "r", "L", "a", "t">>, Get(params, "latitude")>>,
          <<<<"n", "e", "a", "r", "L", "n", "g">>, Get(params, "longitude")>>,
          <<<<"p", "r", "e", "f", "e", "r", "C", "i", "t", "y">>, Get(params, "city")>>,
          <<<<"p", "r", "e", "f", "e", "r", "S", "t", "a", "t", "e">>, Get(params, "state")>>,
          <<<<"c", "a", "t", "e", "g", "o", "r", "y", "E", "v", "e", "n", "t", "T", "y", "p",
                "e">>, Get(params, "categoryEventType")>> >>)

BrowsePath(params) ==
    LET query == BrowseQuery(params)
    IN  IF query.t = "throw" THEN query
        ELSE Return(Str(<<"/", "a", "p", "i", "/", "e", "v", "e", "n", "t", "s">> \o query.v.s))

\* (data.events ?? []).map(normalizeEvent)
EventsOf(data) ==
    IF IsNullish(data) THEN Throw("TypeError")
    ELSE LET events == Coalesce(Get(data, "events"), Arr(<<>>))
         IN  IF IsArray(events) THEN MapNormalizeEvent(events.a) ELSE Throw("TypeError")

\* the value searchEvents returns for the response body data
SearchEventsResult(data) ==
    LET events == EventsOf(data)
    IN  IF events.t = "throw" THEN events
        ELSE Return(Obj([events |-> events.v, pagination |-> Get(data, "pagination")]))

\* the value browse returns for the response body data
BrowseEventsResult(data) ==
    LET events == EventsOf(data)
    IN  IF events.t = "throw" THEN events
        ELSE Return(Obj([events |-> events.v, total |-> Get(data, "total")]))

----------------------------------------------------------------------------
(* getListings                                                             *)

DefaultListingsSize == 50
DefaultListingsPage == 1

ListingsQuery(params) ==
    qs(<< <<<<"s", "i", "z", "e">>, Coalesce(Get(params, "size"), Num(DefaultListingsSize))>>,
          <<<<"p", "a", "g", "e">>, Coalesce(Get(params, "page"), Num(DefaultListingsPage))>>,
          <<<<"o", "r", "d", "e", "r", "_", "b", "y", "_", "d", "i", "r", "e", "c", "t", "i",
                "o", "n">>,
            Coalesce(Get(params, "orderByDirection"), Str(<<"a", "s", "c">>))>> >>)

\* `/api/events/${encodeURIComponent(id)}${suffix}${query}` for the event
\* identifier id as it is interpolated; String(undefined) is "undefined"
EventPath(id, suffix, query) ==
    LET segment == encodeURIComponent(JsToString(id))
    IN  IF segment.t = "throw" THEN segment
        ELSE Return(Str(<<"/", "a", "p", "i", "/", "e", "v", "e", "n", "t", "s",
              "/">> \o segment.v.s \o suffix \o query))

\* the path with the identifier interpolated as the caller passed it
ListingsPath_rawEventId(params) ==
    LET query == ListingsQuery(params)
    IN  IF query.t = "throw" THEN query
        ELSE EventPath(Get(params, "eventId"), <<"/", "l", "i", "s", "t", "i", "n", "g",
              "s">>, query.v.s)

ListingsPath(params) ==
    LET query == ListingsQuery(params)
        normalizedEventId == normalizeExternalEventId(Get(params, "eventId"))
    IN  IF query.t = "throw" THEN query
        ELSE IF normalizedEventId.t = "throw" THEN normalizedEventId
        ELSE EventPath(normalizedEventId.v, <<"/", "l", "i", "s", "t", "i", "n", "g",
              "s">>, query.v.s)

\* the value getListings returns for the response body data
GetListingsResult(params, data) ==
    IF IsNullish(data) THEN Throw("TypeError")
    ELSE
    LET raw == Coalesce(Get(data, "data"), Arr(<<>>))
        listings == IF IsArray(raw) THEN MapNormalizeListing(raw.a) ELSE Throw("TypeError")
        meta == Get(data, "meta")
    IN  IF listings.t = "throw" THEN listings
        ELSE Return(Obj(
            [listings |-> listings.v,
             meta |-> Obj(
                [total |-> Coalesce(Get(meta, "total"), Num(Len(listings.v.a))),
                 page |-> Coalesce(Get(meta, "page"),
                                   Coalesce(Get(params, "page"), Num(DefaultListingsPage))),
                 size |-> Coalesce(Get(meta, "size"),
                                   Coalesce(Get(params, "size"), Num(DefaultListingsSize))),
                 cacheSource |-> Get(meta, "cacheSource")])]))

----------------------------------------------------------------------------
(* getSeatmap and fetchAndParseCoordinates                                 *)

SeatmapPath(params) ==
    LET normalizedEventId == normalizeExternalEventId(Get(params, "eventId"))
    IN  IF normalizedEventId.t = "throw" THEN normalizedEventId
        ELSE EventPath(normalizedEventId.v, <<"/", "s", "e", "a", "t", "i", "n", "g", "-",
              "c", "h", "a", "r", "t">>, <<>>)

\* data.coordinates_url ?? data.coordinates ?? null
CoordinatesUrlOf(data) ==
    Coalesce(Get(data, "coordinates_url"), Coalesce(Get(data, "coordinates"), Null))

\* the condition without the has_coordinates flag
WantsCoordinates_urlOnly(data) == Truthy(CoordinatesUrlOf(data))

\* data.has_coordinates && coordinatesUrl
WantsCoordinates(data) ==
    Truthy(Get(data, "has_coordinates")) /\ Truthy(CoordinatesUrlOf(data))

\* fullUrl of fetchAndParseCoordinates
CoordinatesFullUrl(c, coordinatesUrl) ==
    IF StartsWith(coordinatesUrl, <<"h", "t", "t", "p">>) THEN coordinatesUrl
    ELSE c.baseUrl \o coordinatesUrl

\* the call fetch(fullUrl, {headers, signal}) of fetchAndParseCoordinates
CoordinatesRequest(c, coordinatesUrl) ==
    [url |-> CoordinatesFullUrl(c, coordinatesUrl),
     headers |-> [Accept |-> <<"a", "p", "p", "l", "i", "c", "a", "t", "i", "o", "n", "/",
           "j", "s", "o", "n">>,
                  UserAgent |-> USER_AGENT,
                  Authorization |-> Undefined]]

NumberOr(v, dflt) == IF IsNumber(v) THEN v ELSE dflt

\* section.labels.filter(...).map(...) of the labels array a
RECURSIVE ParseLabels(_)
ParseLabels(a) ==
    IF a = <<>> THEN <<>>
    ELSE LET label == Head(a)
         IN  (IF Truthy(label) /\ IsString(Get(label, "text"))
              THEN << Obj([text |-> Get(label, "text"),
                           x |-> NumberOr(Get(label, "x"), Num(0)),
                           y |-> NumberOr(Get(label, "y"), Num(0)),
                           size |-> NumberOr(Get(label, "size"), Undefined),
                           angle |-> NumberOr(Get(label, "angle"), Undefined)]) >>
              ELSE <<>>)
             \o ParseLabels(Tail(a))

\* the same search comparing the texts as they are
LabelNamed_caseSensitive(labels, name) ==
    LET hits == {i \in 1..Len(labels) : Get(labels[i], "text").s = name.s}
    IN  IF hits = {} THEN Undefined
        ELSE labels[CHOOSE i \in hits : \A j \in hits : i <= j]

\* labels.find(label => label.text.toUpperCase() === name.toUpperCase())
LabelNamed(labels, name) ==
    LET hits == {i \in 1..Len(labels) :
                    toUpperCase(Get(labels[i], "text").s) = toUpperCase(name.s)}
    IN  IF hits = {} THEN Undefined
        ELSE labels[CHOOSE i \in hits : \A j \in hits : i <= j]

\* the section callback of fetchAndParseCoordinates
ParseSection(section) ==
    IF IsNullish(section) THEN Throw("TypeError")
    ELSE
    LET labels == IF IsArray(Get(section, "labels"))
                  THEN ParseLabels(Get(section, "labels").a)
                  ELSE <<>>
        name == Get(section, "name")
        shape == Get(section, "shape")
    IN  IF labels # <<>> /\ ~IsString(name) THEN Throw("TypeError")
        ELSE
        LET primaryLabel == IF labels = <<>> THEN Undefined
                            ELSE Coalesce(LabelNamed(labels, name), labels[1])
        IN  Return(Obj(
                [id |-> Get(section, "id"),
                 name |-> name,
                 x |-> IF IsNullish(primaryLabel) THEN Num(0)
                       ELSE Coalesce(Get(primaryLabel, "x"), Num(0)),
                 y |-> IF IsNullish(primaryLabel) THEN Num(0)
                       ELSE Coalesce(Get(primaryLabel, "y"), Num(0)),
                 labels |-> Arr(labels),
                 shape_path |-> IF Truthy(shape) /\ IsString(Get(shape, "path"))
                                THEN Get(shape, "path")
                                ELSE Null]))

\* the sections mapped with those that cannot be parsed left out
RECURSIVE MapParseSection_skipFailed(_)
MapParseSection_skipFailed(a) ==
    IF a = <<>> THEN Return(Arr(<<>>))
    ELSE LET h == ParseSection(Head(a))
             rest == MapParseSection_skipFailed(Tail(a))
         IN  IF h.t = "throw" THEN rest
             ELSE Return(Arr(<<h.v>> \o rest.v.a))

RECURSIVE MapParseSection(_)
MapParseSection(a) ==
    IF a = <<>> THEN Return(Arr(<<>>))
    ELSE LET h == ParseSection(Head(a))
             rest == MapParseSection(Tail(a))
         IN  IF h.t = "throw" THEN h
             ELSE IF rest.t = "throw" THEN rest
             ELSE Return(Arr(<<h.v>> \o rest.v.a))

\* the zone callback of fetchAndParseCoordinates
ParseZone(zone) ==
    IF IsNullish(zone) THEN Throw("TypeError")
    ELSE
    LET raw == Coalesce(Get(zone, "sections"), Arr(<<>>))
        sections == IF IsArray(raw) THEN MapParseSection(raw.a) ELSE Throw("TypeError")
    IN  IF sections.t = "throw" THEN sections
        ELSE Return(Obj([id |-> Get(zone, "id"),
                         name |-> Get(zone, "name"),
                         sections |-> sections.v]))

RECURSIVE MapParseZone(_)
MapParseZone(a) ==
    IF a = <<>> THEN Return(Arr(<<>>))
    ELSE LET h == ParseZone(Head(a))
             rest == MapParseZone(Tail(a))
         IN  IF h.t = "throw" THEN h
             ELSE IF rest.t = "throw" THEN rest
             ELSE Return(Arr(<<h.v>> \o rest.v.a))

\* what fetchAndParseCoordinates gives getSeatmap for a response
ParseCoordinates(resp) ==
    CASE resp.k = "reject" -> Throw("TypeError")
      [] resp.k = "abort" -> Throw("AbortError")
      [] resp.k = "status" -> Return(Arr(<<>>))
      [] resp.k = "badjson" -> Throw("SyntaxError")
      [] resp.k = "json" ->
            LET coords == resp.body
            IN  IF IsNullish(coords) THEN Throw("TypeError")
                ELSE IF ~Truthy(Get(coords, "zones")) THEN Return(Arr(<<>>))
                ELSE IF ~IsArray(Get(coords, "zones")) THEN Throw("TypeError")
                ELSE MapParseZone(Get(coords, "zones").a)

\* zones after the try/catch of getSeatmap
ZonesOrEmpty(parsed) == IF parsed.t = "throw" THEN Arr(<<>>) ELSE parsed.v

\* the names with the zones taken last to first
RECURSIVE SectionNames_zonesReversed(_)
SectionNames_zonesReversed(zones) ==
    IF zones = <<>> THEN <<>>
    ELSE LET sections == Get(Head(zones), "sections").a
         IN  SectionNames_zonesReversed(Tail(zones))
             \o [i \in 1..Len(sections) |-> Get(sections[i], "name")]

\* zones.flatMap((z) => z.sections.map((s) => s.name))
RECURSIVE SectionNames(_)
SectionNames(zones) ==
    IF zones = <<>> THEN <<>>
    ELSE LET sections == Get(Head(zones), "sections").a
         IN  [i \in 1..Len(sections) |-> Get(sections[i], "name")]
             \o SectionNames(Tail(zones))

\* the value getSeatmap returns for the primary body data and the zones
GetSeatmapResult(c, data, zones) ==
    LET event_id == normalizeExternalEventId(Get(data, "event_id"))
        background_image ==
            toAbsoluteUrl(c.baseUrl, Coalesce(Get(data, "background_image"), Null))
        coordinates_url == toAbsoluteUrl(c.baseUrl, CoordinatesUrlOf(data))
    IN  IF event_id.t = "throw" THEN event_id
        ELSE IF background_image.t = "throw" THEN background_image
        ELSE IF coordinates_url.t = "throw" THEN coordinates_url
        ELSE Return(Obj(
            [success |-> Get(data, "success"),
             event_id |-> event_id.v,
             venue_id |-> Get(data, "venue_id"),
             venue_name |-> Get(data, "venue_name"),
             configuration_id |-> Get(data, "configuration_id"),
             configuration_name |-> Get(data, "configuration_name"),
             background_image |-> background_image.v,
             coordinates_url |-> coordinates_url.v,
             has_coordinates |-> Get(data, "has_coordinates"),
             capacity |-> Coalesce(Get(data, "capacity"), Null),
             venue |-> Get(data, "venue_data"),
             zones |-> zones,
             section_names |-> Arr(SectionNames(zones.a))]))

----------------------------------------------------------------------------
(* createCheckoutLink                                                      *)

\* a < b for numbers
NumLess(a, b) ==
    IF ~a.fin THEN a.sign < 0 /\ (b.fin \/ b.sign > 0)
    ELSE IF ~b.fin THEN b.sign > 0
    ELSE a.hi < b.hi \/ (a.hi = b.hi /\ a.lo < b.lo)

MathMin(a, b) == IF NumLess(b, a) THEN b ELSE a
MathMax(a, b) == IF NumLess(a, b) THEN b ELSE a
\* Math.round of the numbers modelled: integers and the infinities
MathRound(v) == v

MinQuantity == 1
MaxQuantity == 8

\* the quantity with no lower limit
ClampQuantity_noLowerLimit(q) == MathMin(Num(MaxQuantity), MathRound(q))

\* Math.max(1, Math.min(8, Math.round(params.quantity)))
ClampQuantity(q) == MathMax(Num(MinQuantity), MathMin(Num(MaxQuantity), MathRound(q)))

\* TixBitClient.createCheckoutLink
createCheckoutLink(c, params) ==
    LET quantity == ClampQuantity(Get(params, "quantity"))
        listing == encodeURIComponent(JsToString(Get(params, "listingId")))
    IN  IF listing.t = "throw" THEN listing
        ELSE Return(Obj(
            [url |-> Str(c.baseUrl \o <<"/", "c", "h", "e", "c", "k", "o", "u", "t", "/", "p", "r", "o", "c", "e", "s", "s", "?", "l", "i", "s", "t", "i", "n", "g", "=">> \o listing.v.s
                         \o <<"&", "q", "u", "a", "n", "t", "i", "t", "y", "=">> \o NumberToString(quantity)),
             listingId |-> Get(params, "listingId"),
             quantity |-> quantity]))

----------------------------------------------------------------------------
(* eventUrl                                                                *)

\* the URL with the input normalized whether or not it holds a slash
eventUrl_alwaysNormalized(c, slugOrId) ==
    LET normalized == normalizeExternalEventId(slugOrId)
    IN  IF ~IsString(slugOrId) THEN Throw("TypeError")
        ELSE Return(Str(c.baseUrl \o <<"/", "e", "v", "e", "n", "t", "s", "/">> \o JsToString(normalized.v)))

\* TixBitClient.eventUrl; slugOrId.includes is not a function for a value
\* that is not a string
eventUrl(c, slugOrId) ==
    IF ~IsString(slugOrId) THEN Throw("TypeError")
    ELSE IF Includes(slugOrId.s, <<"/">>)
    THEN Return(Str(c.baseUrl \o <<"/", "e", "v", "e", "n", "t", "s", "/">> \o slugOrId.s))
    ELSE LET normalized == normalizeExternalEventId(slugOrId)
         IN  Return(Str(c.baseUrl \o <<"/", "e", "v", "e", "n", "t", "s", "/">> \o JsToString(normalized.v)))

----------------------------------------------------------------------------
(* The facade as a state machine: a call issues its primary request, the   *)
(* response settles it, and getSeatmap may follow with the coordinates     *)
(* request.  fetched is the sequence of fetch calls made so far, each with *)
(* the response it got.                                                    *)

MaxEvents == 2
MaxListings == 2
MaxZones == 2

InFlight == [k |-> "pending"]

Issue(req) == [url |-> req.url, headers |-> req.headers, resp |-> InFlight]

FacadeClients ==
    { TixBitClient(EmptyObj),
      TixBitClient(Obj([baseUrl |-> Str(<<"h", "t", "t", "p", ":", "/", "/", "l", "o", "c",
            "a", "l", "h", "o", "s", "t", ":", "3", "0", "0", "0", "/", "/">>),
                        apiKey |-> Str(<<"k", "1">>),
                        timeoutMs |-> Num(50)])) }

FacadeIds ==
    { Str(PrefixedId), Str(BareId), Str(PaddedPrefixedId), Str(<<>>),
      Str(<<"p", "r", "o", "v", "-", "3", "6", "P", "B", "9">>), Str(<<" ", "3", "6", "P",
            "B", "9", "Z", "N", " ">>), Str(<<"a", " ", "b">>), Str(<<"e", "v", "t", "/", "3",
                  "6", "P", "B", "9", "Z", "N">>),
      Str(<<"a", LoneSurrogate>>) }

SeatmapIds ==
    { Str(PrefixedId), Str(BareId), Str(PaddedPrefixedId), Str(<<"a", " ", "b">>),
      Str(<<"a", LoneSurrogate>>) }

SearchParams ==
    { Obj([query |-> q, state |-> s, page |-> p, size |-> z]) :
        q \in {Undefined, Str(<<>>), Str(<<"H", "a", "w", "k", "s">>), Str(<<"a", " ", "b",
              "&", "c">>),
               Str(<<LoneSurrogate>>)},
        s \in {Undefined, Str(<<"G", "A">>)},
        p \in {Undefined, Num(2)},
        z \in {Undefined, Num(10)} }

BrowseParams ==
    { Obj([latitude |-> lat, longitude |-> lng, city |-> c, size |-> z,
           categoryEventType |-> e]) :
        lat \in {Undefined, Num(33)},
        lng \in {Undefined, Num(-84)},
        c \in {Undefined, Str(<<"N", "e", "w", " ", "Y", "o", "r", "k">>)},
        z \in {Undefined, Num(10)},
        e \in {Undefined, Str(<<"S", "P", "O", "R", "T">>)} }

ListingsParams ==
    { Obj([eventId |-> id, size |-> z, page |-> p, orderByDirection |-> d]) :
        id \in FacadeIds,
        z \in {Undefined, Num(10)},
        p \in {Undefined, Num(2)},
        d \in {Undefined, Str(<<"d", "e", "s", "c">>)} }

SeatmapParams == { Obj([eventId |-> id]) : id \in SeatmapIds }

EventUrlInputs ==
    FacadeIds \cup { Str(<<" ", "s", "p", "o", "r", "t", "s", "/", "h", "a", "w", "k", "s", " ">>), Str(<<"3", "6", "p", "b", "9", "z">>), Str(<<"h", "a", "w", "k", "s", "-", "v", "s", "-", "c", "e", "l", "t", "i", "c", "s">>) }

CheckoutParams ==
    { Obj([listingId |-> id, quantity |-> Num(q), buyerEmail |-> Str(<<"a", "@", "b", ".", "c", "o">>)]) :
        id \in {Str(<<"P", "2", "J", "O", "5", "O", "B", "X">>), Str(<<"a", " ", "b">>), Str(<<"L", "1", "&", "q", "u", "a", "n", "t", "i", "t", "y", "=", "9">>), Str(<<>>), Str(<<"L", LoneSurrogate>>)},
        q \in (-2..10) \cup {50} }

\* upstream event records, each identifier field and form among them
EventSamples ==
    { Null,
      Str(<<"x">>),
      Obj([id |-> Str(PrefixedId), external_event_id |-> Str(BareId)]),
      Obj([id |-> Str(PrefixedId), name |-> Str(<<"H", "a", "w", "k", "s">>)]),
      Obj([externalEventId |-> Str(PaddedPrefixedId), date |-> SampleEpoch]),
      Obj([external_event_id |-> Str(PrefixedId), date |-> Num2(MaxDay, 1)]) }

EventArrays == UNION { [1..n -> EventSamples] : n \in 0..MaxEvents }

SamplePagination ==
    Obj([page |-> Num(1), size |-> Num(25), total |-> Num(2), totalPages |-> Num(1),
         hasNext |-> Bool(FALSE), hasPrev |-> Bool(FALSE)])

\* response bodies of /api/events/search and /api/events
EventBodies ==
    { Obj([events |-> Arr(a), pagination |-> p, total |-> Get(p, "total")]) :
          a \in EventArrays, p \in {Undefined, SamplePagination} }
    \cup { Null, EmptyObj, Obj([events |-> Null]), Obj([events |-> Str(<<"x">>)]) }

ListingSamples ==
    { Null,
      Obj([id |-> Str(<<"L", "1">>), price |-> Num(25), quantity |-> Num(2)]),
      Obj([id |-> Str(<<"L", "2">>),
           attributes |-> Obj([price_per_ticket |-> Num(40), section |-> Str(<<"1", "0",
                 "1">>)])]),
      Obj([attributes |-> Obj([id |-> Num(7), splits |-> Arr(<<Num(1), Num(2)>>)])]) }

ListingArrays == UNION { [1..n -> ListingSamples] : n \in 0..MaxListings }

SampleMeta ==
    Obj([total |-> Num(5), page |-> Num(3), size |-> Num(20),
         cacheSource |-> Str(<<"r", "e", "d", "i", "s">>)])

\* response bodies of /api/events/<id>/listings
ListingBodies ==
    { Obj([success |-> Bool(TRUE), data |-> Arr(a), meta |-> m]) :
          a \in ListingArrays, m \in {Undefined, SampleMeta} }
    \cup { Null, EmptyObj, Obj([data |-> Str(<<"x">>)]) }

SampleVenue ==
    Obj([name |-> Str(<<"S", "t", "a", "t", "e", " ", "F", "a", "r", "m", " ", "A", "r", "e",
          "n", "a">>), city |-> Str(<<"A", "t", "l", "a", "n", "t", "a">>),
         region |-> Str(<<"G", "A">>), country |-> Str(<<"U", "S">>),
         time_zone |-> Str(<<"A", "m", "e", "r", "i", "c", "a", "/", "N", "e", "w", "_", "Y",
               "o", "r", "k">>)])

\* response bodies of /api/events/<id>/seating-chart
SeatmapBodies ==
    { Obj([success |-> Bool(TRUE),
           event_id |-> id,
           venue_id |-> Str(<<"v", "1">>),
           venue_name |-> Str(<<"S", "t", "a", "t", "e", " ", "F", "a", "r", "m", " ", "A",
                 "r", "e", "n", "a">>),
           configuration_id |-> Str(<<"c", "1">>),
           configuration_name |-> Str(<<"B", "a", "s", "k", "e", "t", "b", "a", "l", "l">>),
           background_image |-> bg,
           coordinates |-> legacy,
           coordinates_url |-> cu,
           has_coordinates |-> has,
           capacity |-> Num(18000),
           venue_data |-> SampleVenue]) :
        id \in {Undefined, Str(PrefixedId), Str(PaddedPrefixedId), Num(7)},
        bg \in {Undefined, Str(<<>>), Num(3),
                Str(<<"/", "a", "p", "i", "/", "s", "e", "a", "t", "m", "a", "p", "/", "a", "s", "s", "e", "t", "s", "?", "u", "r", "l", "=", "b", "g">>),
                Str(<<"h", "t", "t", "p", "s", ":", "/", "/", "c", "d", "n", ".", "e", "x", "a", "m", "p", "l", "e", "/", "b", "g", ".", "s", "v", "g">>),
                Str(<<"/", "/", "c", "d", "n", ".", "e", "x", "a", "m", "p", "l", "e", "/", "b", "g", ".", "s", "v", "g">>)},
        legacy \in {Undefined, Str(<<"/", "l", "e", "g", "a", "c", "y", ".", "j", "s", "o",
              "n">>)},
        cu \in {Undefined, Str(<<"/", "a", "p", "i", "/", "s", "e", "a", "t", "m", "a", "p",
              "/", "a", "s", "s", "e", "t", "s", "?", "u", "r", "l", "=", "c">>),
                Str(<<"h", "t", "t", "p", "s", ":", "/", "/", "c", "d", "n", ".", "e", "x",
                      "a", "m", "p", "l", "e", "/", "c", ".", "j", "s", "o",
                            "n">>), Str(<<"c", "o", "o", "r", "d", "s", ".", "j", "s", "o",
                                  "n">>)},
        has \in {Bool(TRUE), Bool(FALSE)} }
    \cup { Null, EmptyObj }

SectionSamples ==
    << Obj([id |-> Str(<<"8", "0", "8", "4", "1">>), name |-> Str(<<"1", "0", "1">>),
            labels |-> Arr(<<Obj([text |-> Str(<<"1", "0", "1">>), x |-> Num(10), y |-> Num(20)])>>),
            shape |-> Obj([path |-> Str(<<"M", "0", " ", "0">>)])]),
       Obj([id |-> Str(<<"2">>), name |-> Str(<<"F", "l", "o", "o", "r", "3">>),
            labels |-> Arr(<<Obj([text |-> Str(<<"x">>), x |-> Num(1), y |-> Num(2)]),
                             Obj([text |-> Str(<<"F", "L", "O", "O", "R",
                                   "3">>), x |-> Num(5), y |-> Num(6)])>>)]),
       Obj([id |-> Str(<<"3">>), name |-> Str(<<"2", "0", "1">>)]),
       Obj([id |-> Str(<<"5">>), name |-> Str(<<"3", "0", "1">>),
            labels |-> Arr(<<Null, Obj([text |-> Num(5)]),
                             Obj([text |-> Str(<<"B">>), y |-> Num(7)])>>),
            shape |-> Obj([path |-> Num(3)])]),
       Obj([id |-> Str(<<"4">>),
            labels |-> Arr(<<Obj([text |-> Str(<<"A">>), x |-> Str(<<"b", "a", "d">>)])>>)]) >>

ZoneSamples ==
    { Null,
      Obj([id |-> Str(<<"z", "1">>), name |-> Str(<<"S", "e", "c", "t", "i", "o", "n">>),
           sections |-> Arr(<<SectionSamples[1], SectionSamples[2]>>)]),
      Obj([id |-> Str(<<"z", "2">>), name |-> Str(<<"F", "l", "o", "o", "r">>),
           sections |-> Arr(<<SectionSamples[3], SectionSamples[4]>>)]),
      Obj([id |-> Str(<<"z", "3">>), name |-> Str(<<"S", "u", "i", "t", "e">>)]),
      Obj([id |-> Str(<<"z", "4">>), name |-> Str(<<"B", "a", "d">>),
           sections |-> Arr(<<SectionSamples[3], SectionSamples[5]>>)]) }

ZoneArrays == UNION { [1..n -> ZoneSamples] : n \in 0..MaxZones }

\* bodies of the coordinates document
CoordinatesBodies ==
    { Obj([zones |-> Arr(a)]) : a \in ZoneArrays }
    \cup { Null, EmptyObj, Obj([zones |-> Str(<<"x">>)]) }

Responses(bodies) == FailedResponses \cup { JsonResponse(b) : b \in bodies }

InitFacade ==
    /\ \/ op = "searchEvents" /\ arg \in SearchParams
       \/ op = "browse" /\ arg \in BrowseParams
       \/ op = "getListings" /\ arg \in ListingsParams
       \/ op = "getSeatmap" /\ arg \in SeatmapParams
       \/ op = "createCheckoutLink" /\ arg \in CheckoutParams
       \/ op = "eventUrl" /\ arg \in EventUrlInputs
    /\ pc = "call"
    /\ fetched = <<>>
    /\ client \in FacadeClients
    /\ ret = Pending

\* the synchronous part with the request handed to fetch twice
Begin_twice(path) ==
    IF path.t = "throw"
    THEN /\ ret' = path
         /\ pc' = "done"
         /\ fetched' = fetched
    ELSE /\ fetched' = fetched \o << Issue(Request(client, path.v.s)),
                                     Issue(Request(client, path.v.s)) >>
         /\ pc' = "await"
         /\ ret' = ret

\* the synchronous part of an operation up to its first await: it rejects
\* without a request when building the path throws, else calls fetch
Begin(path) ==
    IF path.t = "throw"
    THEN /\ ret' = path
         /\ pc' = "done"
         /\ fetched' = fetched
    ELSE /\ fetched' = Append(fetched, Issue(Request(client, path.v.s)))
         /\ pc' = "await"
         /\ ret' = ret

SearchEventsCall ==
    /\ op = "searchEvents"
    /\ pc = "call"
    /\ Begin(SearchEventsPath(arg))
    /\ UNCHANGED <<op, arg, client>>

BrowseCall ==
    /\ op = "browse"
    /\ pc = "call"
    /\ Begin(BrowsePath(arg))
    /\ UNCHANGED <<op, arg, client>>

GetListingsCall ==
    /\ op = "getListings"
    /\ pc = "call"
    /\ Begin(ListingsPath(arg))
    /\ UNCHANGED <<op, arg, client>>

GetSeatmapCall ==
    /\ op = "getSeatmap"
    /\ pc = "call"
    /\ Begin(SeatmapPath(arg))
    /\ UNCHANGED <<op, arg, client>>

SearchEventsSettle ==
    /\ op = "searchEvents"
    /\ pc = "await"
    /\ \E resp \in Responses(EventBodies) :
          LET data == RequestOutcome(fetched[1], resp)
          IN  /\ fetched' = [fetched EXCEPT ![1].resp = resp]
              /\ ret' = IF data.t = "throw" THEN data ELSE SearchEventsResult(data.v)
    /\ pc' = "done"
    /\ UNCHANGED <<op, arg, client>>

BrowseSettle ==
    /\ op = "browse"
    /\ pc = "await"
    /\ \E resp \in Responses(EventBodies) :
          LET data == RequestOutcome(fetched[1], resp)
          IN  /\ fetched' = [fetched EXCEPT ![1].resp = resp]
              /\ ret' = IF data.t = "throw" THEN data ELSE BrowseEventsResult(data.v)
    /\ pc' = "done"
    /\ UNCHANGED <<op, arg, client>>

GetListingsSettle ==
    /\ op = "getListings"
    /\ pc = "await"
    /\ \E resp \in Responses(ListingBodies) :
          LET data == RequestOutcome(fetched[1], resp)
          IN  /\ fetched' = [fetched EXCEPT ![1].resp = resp]
              /\ ret' = IF data.t = "throw" THEN data ELSE GetListingsResult(arg, data.v)
    /\ pc' = "done"
    /\ UNCHANGED <<op, arg, client>>

\* the primary response of getSeatmap arrives: the operation ends, or goes
\* on to fetch the coordinates document
GetSeatmapPrimary ==
    /\ op = "getSeatmap"
    /\ pc = "await"
    /\ \E resp \in Responses(SeatmapBodies) :
          LET data == RequestOutcome(fetched[1], resp)
              settled == [fetched EXCEPT ![1].resp = resp]
          IN  IF data.t = "throw"
              THEN fetched' = settled /\ ret' = data /\ pc' = "done"
              ELSE IF IsNullish(data.v)
              THEN fetched' = settled /\ ret' = Throw("TypeError") /\ pc' = "done"
              ELSE IF WantsCoordinates(data.v) /\ IsString(CoordinatesUrlOf(data.v))
              THEN /\ fetched' = Append(settled,
                        Issue(CoordinatesRequest(client, CoordinatesUrlOf(data.v).s)))
                   /\ ret' = ret
                   /\ pc' = "awaitCoords"
              ELSE /\ fetched' = settled
                   /\ ret' = GetSeatmapResult(client, data.v, Arr(<<>>))
                   /\ pc' = "done"
    /\ UNCHANGED <<op, arg, client>>

\* the coordinates response arrives
GetSeatmapCoordinates ==
    /\ op = "getSeatmap"
    /\ pc = "awaitCoords"
    /\ \E resp \in Responses(CoordinatesBodies) :
          /\ fetched' = [fetched EXCEPT ![2].resp = resp]
          /\ ret' = GetSeatmapResult(client, fetched[1].resp.body,
                                     ZonesOrEmpty(ParseCoordinates(resp)))
    /\ pc' = "done"
    /\ UNCHANGED <<op, arg, client>>

\* createCheckoutLink is synchronous and calls nothing
CreateCheckoutLink ==
    /\ op = "createCheckoutLink"
    /\ pc = "call"
    /\ ret' = createCheckoutLink(client, arg)
    /\ pc' = "done"
    /\ UNCHANGED <<op, arg, fetched, client>>

\* eventUrl is synchronous and calls nothing
EventUrl ==
    /\ op = "eventUrl"
    /\ pc = "call"
    /\ ret' = eventUrl(client, arg)
    /\ pc' = "done"
    /\ UNCHANGED <<op, arg, fetched, client>>

NextFacade ==
    \/ SearchEventsCall
    \/ SearchEventsSettle
    \/ BrowseCall
    \/ BrowseSettle
    \/ GetListingsCall
    \/ GetListingsSettle
    \/ GetSeatmapCall
    \/ GetSeatmapPrimary
    \/ GetSeatmapCoordinates
    \/ CreateCheckoutLink
    \/ EventUrl

SpecFacade == InitFacade /\ [][NextFacade]_vars

----------------------------------------------------------------------------
(* Claims about the request facade                                         *)

C3_Contains(s, p) ==
    \E i \in 0..(Len(s) - Len(p)) : SubSeq(s, i + 1, i + Len(p)) = p

C3_Escaped ==
    {" ", "/", "?", "=", "&", ":", ",", "%", "+", "#", "@", "[", "]", "\t", "\n"}

\* the text a percent-encoded path segment stands for
RECURSIVE C3_PercentDecode(_)
C3_PercentDecode(s) ==
    IF s = <<>> THEN <<>>
    ELSE IF Head(s) = "%" /\ Len(s) >= 3
    THEN <<CHOOSE c \in C3_Escaped : PercentEncoded(c) = SubSeq(s, 1, 3)>>
             \o C3_PercentDecode(SubSeq(s, 4, Len(s)))
    ELSE <<Head(s)>> \o C3_PercentDecode(Tail(s))

C3_Op == op \in {"getListings", "getSeatmap"}
C3_EventId == Get(arg, "eventId").s
C3_Normalized == normalizeExternalEventId(Get(arg, "eventId")).v.s
C3_Suffix == IF op = "getListings" THEN <<"/", "l", "i", "s", "t", "i", "n", "g",
      "s">> ELSE <<"/", "s", "e", "a", "t", "i", "n", "g", "-", "c", "h", "a", "r", "t">>
C3_Url == fetched[1].url
C3_Lead == client.baseUrl \o <<"/", "a", "p", "i", "/", "e", "v", "e", "n", "t", "s", "/">>
\* the requested URL after <base>/api/events/
C3_Rest == SubSeq(C3_Url, Len(C3_Lead) + 1, Len(C3_Url))
\* the event path segment: up to the next path separator
C3_SegmentLen == RunLen(C3_Rest, 1, {C3_Rest[i] : i \in 1..Len(C3_Rest)} \ {"/"})
C3_Segment == SubSeq(C3_Rest, 1, C3_SegmentLen)
C3_AfterSegment == SubSeq(C3_Rest, C3_SegmentLen + 1, Len(C3_Rest))
C3_NeverPrefixed ==
    C2_Prefixed(Trim(C3_EventId)) => ~C3_Contains(C3_Url, Trim(C3_EventId))

\* C3 as stated: the URL of the primary request of getListings (getSeatmap)
\* contains /api/events/<normalize(eventId)>/listings (/seating-chart)
\* literally, and never the provider-prefixed form of the identifier.
C3_LiteralSegment ==
    (C3_Op /\ fetched # <<>>) =>
        /\ C3_Contains(C3_Url, <<"/", "a", "p", "i", "/", "e", "v", "e", "n", "t", "s",
              "/">> \o C3_Normalized \o C3_Suffix)
        /\ C3_NeverPrefixed

\* C3 amended: the primary request of getListings (getSeatmap) goes to
\* <base>/api/events/<segment>/listings?<query> (/seating-chart), where
\* segment is the percent-encoding of normalize(eventId): it holds only
\* unreserved characters and escapes, and decodes to the normalized
\* identifier, so it is the normalized identifier itself when that holds
\* unreserved characters only; the URL never contains the provider-prefixed
\* form; the one call that issues no request is that of an identifier with
\* an unpaired surrogate, which rejects with URIError.
C3_EncodedSegment ==
    /\ (C3_Op /\ fetched # <<>>) =>
          /\ StartsWith(C3_Url, C3_Lead)
          /\ \A i \in 1..Len(C3_Segment) : C3_Segment[i] \in UriUnreserved \cup {"%"}
          /\ C3_PercentDecode(C3_Segment) = C3_Normalized
          /\ StartsWith(C3_AfterSegment, C3_Suffix)
          /\ op = "getSeatmap" => C3_AfterSegment = C3_Suffix
          /\ op = "getListings" =>
                StartsWith(C3_AfterSegment, C3_Suffix \o <<"?", "s", "i", "z", "e", "=">>)
          /\ (\A i \in 1..Len(C3_Normalized) : C3_Normalized[i] \in UriUnreserved) =>
                C3_Segment = C3_Normalized
          /\ C3_NeverPrefixed
    /\ (C3_Op /\ pc # "call" /\ fetched = <<>>) =>
          /\ \E i \in 1..Len(C3_EventId) : C3_EventId[i] = LoneSurrogate
          /\ ret = Throw("URIError")
          /\ pc = "done"

\* a provider-prefixed identifier with padding was passed to getListings, and
\* the primary request went out with the bare identifier as its segment
C3_Witness ==
    /\ op = "getListings"
    /\ fetched # <<>>
    /\ Get(arg, "eventId") = Str(PaddedPrefixedId)
    /\ C2_Prefixed(Trim(C3_EventId))
    /\ C3_Segment = <<"A", "B", "C", "1", "2", "3">>

C4_Done == pc = "done" /\ ret.t = "return"

\* the event identifiers of the output record
C4_OutputIds ==
    IF C4_Done /\ op \in {"searchEvents", "browse"}
    THEN LET events == Get(ret.v, "events").a
         IN  {Get(events[i], "id") : i \in 1..Len(events)}
             \cup {Get(events[i], "external_event_id") : i \in 1..Len(events)}
    ELSE IF C4_Done /\ op = "getSeatmap"
    THEN {Get(ret.v, "event_id")}
    ELSE {}

\* C4: every event id and external_event_id that searchEvents or browse
\* returns, and the event_id that getSeatmap returns, is a fixed point of
\* normalizeExternalEventId and is not of the form
\* <alphabetic run, >= 5>-<alphanumeric run, >= 6>, whichever upstream field
\* it came from.
C4_NoPrefixedOutputId ==
    \A v \in C4_OutputIds :
        /\ normalizeExternalEventId(v) = Return(v)
        /\ IsString(v) => ~C2_Prefixed(v.s)

\* searchEvents returned an event whose upstream id was provider-prefixed
C4_Witness ==
    /\ op = "searchEvents"
    /\ C4_Done
    /\ Get(ret.v, "events").a # <<>>
    /\ Get(Get(fetched[1].resp.body, "events").a[1], "id") = Str(PrefixedId)
    /\ Get(Get(ret.v, "events").a[1], "id") = Str(<<"3", "6", "p", "b", "9", "z">>)

----------------------------------------------------------------------------
(* Claims about getSeatmap and the coordinates document                    *)

\* the primary request of getSeatmap was answered with a JSON object
Seatmap_PrimaryBody ==
    /\ op = "getSeatmap"
    /\ Len(fetched) >= 1
    /\ fetched[1].resp.k = "json"
    /\ fetched[1].resp.body.t = "object"

\* C11: when the primary seating-chart response has has_coordinates = false,
\* getSeatmap issues exactly one outbound call (no coordinates request, even
\* if a coordinates URL is supplied) and the result it returns has
\* zones = [] and section_names = [].
C11_NoFetchWithoutFlag ==
    (Seatmap_PrimaryBody /\ Get(fetched[1].resp.body, "has_coordinates") = Bool(FALSE)) =>
        /\ Len(fetched) = 1
        /\ pc = "done"
        /\ ret.t = "return" =>
              /\ Get(ret.v, "zones") = Arr(<<>>)
              /\ Get(ret.v, "section_names") = Arr(<<>>)

\* a result came back for a response with the flag false and a coordinates URL
C11_Witness ==
    /\ Seatmap_PrimaryBody
    /\ Get(fetched[1].resp.body, "has_coordinates") = Bool(FALSE)
    /\ IsString(Get(fetched[1].resp.body, "coordinates_url"))
    /\ ret.t = "return"
    /\ Len(fetched) = 1

\* the coordinates request was made and did not yield a zones document:
\* network error, abort, non-success status, unparsable or malformed body
C12_CoordinatesFailed ==
    /\ Seatmap_PrimaryBody
    /\ Len(fetched) = 2
    /\ pc = "done"
    /\ \/ fetched[2].resp.k \in {"reject", "abort", "status", "badjson"}
       \/ ParseCoordinates(fetched[2].resp).t = "throw"

C12_Degraded ==
    LET data == fetched[1].resp.body
    IN  /\ ret.t = "return"
        /\ Get(ret.v, "zones") = Arr(<<>>)
        /\ Get(ret.v, "section_names") = Arr(<<>>)
        /\ Get(ret.v, "has_coordinates") = Get(data, "has_coordinates")
        /\ \A f \in {"success", "venue_id", "venue_name", "configuration_id",
                     "configuration_name", "capacity"} :
              Get(ret.v, f) = Get(data, f)
        /\ Get(ret.v, "venue") = Get(data, "venue_data")

\* C12: when the primary seating-chart request succeeds and the coordinates
\* sub-request fails in any way, getSeatmap returns normally (never throws)
\* with zones = [] and section_names = [], has_coordinates equal to the
\* primary response's flag, and the other primary fields intact.
C12_GracefulDegradation == C12_CoordinatesFailed => C12_Degraded

\* the same for the primary bodies whose event_id and background_image are
\* strings or absent
C12_DegradationOfTypedBody ==
    (/\ C12_CoordinatesFailed
     /\ Get(fetched[1].resp.body, "event_id").t \in {"string", "undefined"}
     /\ Get(fetched[1].resp.body, "background_image").t \in {"string", "undefined"})
        => C12_Degraded

C13_Zones == Get(ret.v, "zones").a
C13_Sections(z) == Get(C13_Zones[z], "sections").a

\* the number of sections in the zones before zone z
RECURSIVE C13_Offset(_)
C13_Offset(z) == IF z <= 1 THEN 0 ELSE C13_Offset(z - 1) + Len(C13_Sections(z - 1))

\* C13: in every getSeatmap result, section_names is the concatenation of the
\* section names of all zones, in zone order and then in section order within
\* the zone; its length is the total number of sections.
C13_SectionNamesFlattened ==
    (op = "getSeatmap" /\ ret.t = "return") =>
        LET names == Get(ret.v, "section_names").a
        IN  /\ Len(names) = C13_Offset(Len(C13_Zones) + 1)
            /\ \A z \in 1..Len(C13_Zones) : \A i \in 1..Len(C13_Sections(z)) :
                  names[C13_Offset(z) + i] = Get(C13_Sections(z)[i], "name")

\* a result with two different zones of two sections each
C13_Witness ==
    /\ op = "getSeatmap"
    /\ ret.t = "return"
    /\ Len(C13_Zones) = 2
    /\ C13_Zones[1] # C13_Zones[2]
    /\ Len(C13_Sections(1)) = 2
    /\ Len(C13_Sections(2)) = 2
    /\ Len(Get(ret.v, "section_names").a) = 4

C14_IsAbsolute(s) == StartsWith(s, <<"h", "t", "t", "p", ":", "/",
      "/">>) \/ StartsWith(s, <<"h", "t", "t", "p", "s", ":", "/", "/">>)

\* the upstream value a URL field of the result is resolved from
C14_Upstream(f) ==
    LET data == fetched[1].resp.body
    IN  IF f = "background_image" THEN Get(data, "background_image")
        ELSE IF ~IsNullish(Get(data, "coordinates_url")) THEN Get(data, "coordinates_url")
        ELSE Get(data, "coordinates")

C14_Resolved(f) ==
    LET u == C14_Upstream(f)
        r == Get(ret.v, f)
        base == client.baseUrl
    IN  IF IsNullish(u) \/ u = Str(<<>>) THEN r = Null
        ELSE /\ IsString(u) /\ IsString(r)
             /\ C14_IsAbsolute(r.s)
             /\ IF C14_IsAbsolute(u.s) THEN r = u
                ELSE /\ base # <<>> /\ base[Len(base)] # "/"
                     /\ r.s = base \o <<"/">>
                                \o (IF Head(u.s) = "/" THEN Tail(u.s) ELSE u.s)

C15_Upstream(z, i) ==
    Get(Get(fetched[2].resp.body, "zones").a[z], "sections").a[i]

\* the label candidates of an upstream section that have a text value
C15_Candidates(section) ==
    IF IsArray(Get(section, "labels"))
    THEN SelectSeq(Get(section, "labels").a,
                   LAMBDA l : Truthy(l) /\ IsString(Get(l, "text")))
    ELSE <<>>

C15_SameText(label, name) ==
    toUpperCase(Get(label, "text").s) = toUpperCase(name.s)

C15_Coordinate(label, axis) ==
    IF IsNumber(Get(label, axis)) THEN Get(label, axis) ELSE Num(0)

\* section out, parsed from section up, lists the candidates of up in order
\* and takes (x, y) from label k of them per the matching rule
C15_Representative(out, up) ==
    LET cand == C15_Candidates(up)
        labels == Get(out, "labels").a
        name == Get(up, "name")
    IN  /\ Len(labels) = Len(cand)
        /\ \A k \in 1..Len(cand) :
              /\ Get(labels[k], "text") = Get(cand[k], "text")
              /\ Get(labels[k], "x") = C15_Coordinate(cand[k], "x")
              /\ Get(labels[k], "y") = C15_Coordinate(cand[k], "y")
        /\ IF cand = <<>>
           THEN Get(out, "x") = Num(0) /\ Get(out, "y") = Num(0)
           ELSE \E k \in 1..Len(cand) :
                  /\ \/ /\ C15_SameText(cand[k], name)
                        /\ \A j \in 1..(k - 1) : ~C15_SameText(cand[j], name)
                     \/ /\ k = 1
                        /\ \A j \in 1..Len(cand) : ~C15_SameText(cand[j], name)
                  /\ Get(out, "x") = C15_Coordinate(cand[k], "x")
                  /\ Get(out, "y") = C15_Coordinate(cand[k], "y")

\* C15: every parsed section lists, in document order, exactly the upstream
\* label candidates that have a text value, and takes (x, y) from the first
\* of them whose text equals the section name case-insensitively, else from
\* the first of them, else (0, 0).
C15_LabelChoice ==
    (op = "getSeatmap" /\ ret.t = "return") =>
        \A z \in 1..Len(C13_Zones) : \A i \in 1..Len(C13_Sections(z)) :
            C15_Representative(C13_Sections(z)[i], C15_Upstream(z, i))

\* a parsed section named Floor3 whose second label FLOOR3 gave (5, 6)
C15_Witness ==
    /\ op = "getSeatmap"
    /\ ret.t = "return"
    /\ Len(C13_Zones) >= 1
    /\ Len(C13_Sections(1)) = 2
    /\ Get(C13_Sections(1)[2], "name") = Str(<<"F", "l", "o", "o", "r", "3">>)
    /\ Len(Get(C13_Sections(1)[2], "labels").a) = 2
    /\ Get(C13_Sections(1)[2], "x") = Num(5)
    /\ Get(C13_Sections(1)[2], "y") = Num(6)

----------------------------------------------------------------------------
(* The section classifier of the command line front end.  A group label is *)
(* written with the code point of its leading symbol spelled out.          *)

IsDigit(s, i) == i <= Len(s) /\ s[i] \in Digits

\* /^<prefix>\d/.test(name)
PrefixThenDigit(name, prefix) ==
    StartsWith(name, prefix) /\ IsDigit(name, Len(prefix) + 1)

\* /^<d>\d{2}/.test(name)
HundredsOf(name, d) ==
    Len(name) >= 1 /\ name[1] = d /\ IsDigit(name, 2) /\ IsDigit(name, 3)

\* /^\d{1,2}$/.test(name)
SmallNumber(name) ==
    Len(name) \in {1, 2} /\ \A i \in 1..Len(name) : name[i] \in Digits

\* the if-chain with the two Suites tests moved before the letter-digit tests
GroupOf_suitesBeforeLetters(name, hasLowerLevel, hasSmallNumbers) ==
    IF PrefixThenDigit(name, <<"F", "L", "O", "O", "R">>) \/ PrefixThenDigit(name, <<"F", "L",
          "R">>)
    THEN "U+1F3C0 Floor"
    ELSE IF HundredsOf(name, "1") THEN "U+2B07 Lower Level (100s)"
    ELSE IF HundredsOf(name, "2") THEN "U+2B06 Upper Level (200s)"
    ELSE IF HundredsOf(name, "3") THEN "U+1F535 300 Level"
    ELSE IF HundredsOf(name, "4") THEN "U+1F7E3 400 Level"
    ELSE IF SmallNumber(name) /\ hasSmallNumbers
    THEN (IF hasLowerLevel THEN "U+1F3DF  Field Level" ELSE "U+2B07 Lower Level")
    ELSE IF StartsWith(name, <<"S", "T", "E">>) THEN "U+1F3E2 Suites"
    ELSE IF Includes(name, <<"S", "U", "I", "T", "E">>) \/ Includes(name, <<"S", "U", "I",
          "T", "E", "S">>)
    THEN "U+1F3E2 Suites"
    ELSE IF PrefixThenDigit(name, <<"L">>) THEN "U+1FAB5 Loge"
    ELSE IF PrefixThenDigit(name, <<"S">>) THEN "U+2601 Sky"
    ELSE IF PrefixThenDigit(name, <<"T">>) THEN "U+1F307 Terrace"
    ELSE IF PrefixThenDigit(name, <<"V">>) THEN "U+1F440 Vista"
    ELSE IF Includes(name, <<"S", "T", "A", "N", "D", "I", "N", "G">>) \/ name = <<"S", "R",
          "O">> \/ name = <<"U", "P", "P", "E", "R">>
    THEN "U+1F9CD Standing Room"
    ELSE IF name = <<"D", "E", "C", "K">> \/ name = <<"R", "O", "O", "F">> \/ name = <<"G",
          "A">> \/ name = <<"H", "A", "T">>
    THEN "U+1F3AA General / Special"
    ELSE "U+1F4CD Other"

\* the group the if-chain of categorizeSections picks for the upper-cased name
GroupOf(name, hasLowerLevel, hasSmallNumbers) ==
    IF PrefixThenDigit(name, <<"F", "L", "O", "O", "R">>) \/ PrefixThenDigit(name, <<"F", "L",
          "R">>)
    THEN "U+1F3C0 Floor"
    ELSE IF HundredsOf(name, "1") THEN "U+2B07 Lower Level (100s)"
    ELSE IF HundredsOf(name, "2") THEN "U+2B06 Upper Level (200s)"
    ELSE IF HundredsOf(name, "3") THEN "U+1F535 300 Level"
    ELSE IF HundredsOf(name, "4") THEN "U+1F7E3 400 Level"
    ELSE IF SmallNumber(name) /\ hasSmallNumbers
    THEN (IF hasLowerLevel THEN "U+1F3DF  Field Level" ELSE "U+2B07 Lower Level")
    ELSE IF PrefixThenDigit(name, <<"L">>) THEN "U+1FAB5 Loge"
    ELSE IF PrefixThenDigit(name, <<"S">>) THEN "U+2601 Sky"
    ELSE IF PrefixThenDigit(name, <<"T">>) THEN "U+1F307 Terrace"
    ELSE IF PrefixThenDigit(name, <<"V">>) THEN "U+1F440 Vista"
    ELSE IF StartsWith(name, <<"S", "T", "E">>) THEN "U+1F3E2 Suites"
    ELSE IF Includes(name, <<"S", "U", "I", "T", "E">>) \/ Includes(name, <<"S", "U", "I",
          "T", "E", "S">>)
    THEN "U+1F3E2 Suites"
    ELSE IF Includes(name, <<"S", "T", "A", "N", "D", "I", "N", "G">>) \/ name = <<"S", "R",
          "O">> \/ name = <<"U", "P", "P", "E", "R">>
    THEN "U+1F9CD Standing Room"
    ELSE IF name = <<"D", "E", "C", "K">> \/ name = <<"R", "O", "O", "F">> \/ name = <<"G",
          "A">> \/ name = <<"H", "A", "T">>
    THEN "U+1F3AA General / Special"
    ELSE "U+1F4CD Other"

\* the same step with the group's list started anew by each section
addToGroup_replacing(groups, groupName, section) ==
    IF \E g \in 1..Len(groups) : groups[g].name = groupName
    THEN [g \in 1..Len(groups) |->
            IF groups[g].name = groupName
            THEN [groups[g] EXCEPT !.sections = <<section>>]
            ELSE groups[g]]
    ELSE Append(groups, [name |-> groupName, sections |-> <<section>>])

\* addToGroup: groups is the object as the sequence of its entries in
\* insertion order
addToGroup(groups, groupName, section) ==
    IF \E g \in 1..Len(groups) : groups[g].name = groupName
    THEN [g \in 1..Len(groups) |->
            IF groups[g].name = groupName
            THEN [groups[g] EXCEPT !.sections = Append(@, section)]
            ELSE groups[g]]
    ELSE Append(groups, [name |-> groupName, sections |-> <<section>>])

\* the for loop of categorizeSections from section i on
RECURSIVE CategorizeFrom(_, _, _, _, _)
CategorizeFrom(groups, sections, i, hasLowerLevel, hasSmallNumbers) ==
    IF i > Len(sections) THEN groups
    ELSE CategorizeFrom(
            addToGroup(groups,
                       GroupOf(toUpperCase(Get(sections[i], "name").s),
                               hasLowerLevel, hasSmallNumbers),
                       sections[i]),
            sections, i + 1, hasLowerLevel, hasSmallNumbers)

\* categorizeSections(sections); section.name.toUpperCase is not a function
\* for a name that is not a string
categorizeSections(sections) ==
    IF \E i \in 1..Len(sections) : ~IsString(Get(sections[i], "name"))
    THEN Throw("TypeError")
    ELSE
    LET hasLowerLevel ==
            \E i \in 1..Len(sections) : HundredsOf(Get(sections[i], "name").s, "1")
        hasSmallNumbers ==
            \E i \in 1..Len(sections) : SmallNumber(Get(sections[i], "name").s)
    IN  Return(CategorizeFrom(<<>>, sections, 1, hasLowerLevel, hasSmallNumbers))

MaxSections == 3

\* section names, one or two for every rule of the classifier and some for none
SectionNameSamples ==
    { <<"F", "l", "o", "o", "r", "3">>, <<"f", "l", "r", "1">>, <<"1", "0", "1">>, <<"2", "1",
          "5">>, <<"3", "0", "1">>, <<"4", "5", "0">>, <<"1", "2">>, <<"7">>,
      <<"L", "4">>, <<"S", "2">>, <<"T", "1", "0">>, <<"V", "3">>, <<"S", "T", "E",
            "5">>, <<"C", "l", "u", "b", " ", "S", "u", "i", "t", "e">>, <<"S", "t", "a", "n",
                  "d", "i", "n", "g">>,
      <<"u", "p", "p", "e", "r">>, <<"G", "A">>, <<"B", "a", "l", "c", "o", "n", "y">>,
      <<"l", "2", " ", "S", "u", "i", "t", "e">>, <<"1", "0", "1", " ", "s", "u", "i", "t", "e">>,
      <<"S", "u", "i", "t", "e", " ", "S", "t", "a", "n", "d", "i", "n", "g">>,
      <<"d", "e", "c", "k">>, <<>> }

\* the i-th section of an input list
SampleSection(i, name) ==
    Obj([id |-> Str(<<Digit(i)>>), name |-> Str(name), x |-> Num(0), y |-> Num(0)])

\* arg is the list s followed by at most k more sections
RECURSIVE SectionsComposed(_, _)
SectionsComposed(s, k) ==
    \/ arg = Arr(s)
    \/ k > 0 /\ \E name \in SectionNameSamples :
                   SectionsComposed(Append(s, SampleSection(Len(s) + 1, name)), k - 1)

InitSections ==
    /\ op = "categorizeSections"
    /\ SectionsComposed(<<>>, MaxSections)
    /\ pc = "call"
    /\ fetched = <<>>
    /\ client = TixBitClient(EmptyObj)
    /\ ret = Pending

ApplyCategorizeSections ==
    /\ op = "categorizeSections"
    /\ pc = "call"
    /\ ret' = categorizeSections(arg.a)
    /\ pc' = "done"
    /\ UNCHANGED <<op, arg, fetched, client>>

NextSections == ApplyCategorizeSections

SpecSections == InitSections /\ [][NextSections]_vars

C16_Groups == ret.v

\* the places (group, position) of the result that hold input section i
C16_Places(i) ==
    {p \in (1..Len(C16_Groups)) \X (1..Len(arg.a)) :
        /\ p[2] <= Len(C16_Groups[p[1]].sections)
        /\ C16_Groups[p[1]].sections[p[2]] = arg.a[i]}

RECURSIVE C16_TotalSize(_)
C16_TotalSize(g) ==
    IF g = 0 THEN 0 ELSE C16_TotalSize(g - 1) + Len(C16_Groups[g].sections)

\* C16: categorizeSections partitions its input: each input section is in
\* exactly one group exactly once, the group sizes add up to the input
\* length, no returned group is empty, the groups have different labels, and
\* within a group the sections keep their input order.
C16_Partition ==
    (op = "categorizeSections" /\ pc = "done") =>
        /\ ret.t = "return"
        /\ \A i \in 1..Len(arg.a) : Cardinality(C16_Places(i)) = 1
        /\ C16_TotalSize(Len(C16_Groups)) = Len(arg.a)
        /\ \A g \in 1..Len(C16_Groups) : C16_Groups[g].sections # <<>>
        /\ \A g, h \in 1..Len(C16_Groups) :
              C16_Groups[g].name = C16_Groups[h].name => g = h
        /\ \A i, j \in 1..Len(arg.a) :
              \A p \in C16_Places(i) : \A q \in C16_Places(j) :
                  (i < j /\ p[1] = q[1]) => p[2] < q[2]

\* three sections were classified into two groups, one of them matching no
\* rule, the other two sharing a group
C16_Witness ==
    /\ op = "categorizeSections"
    /\ pc = "done"
    /\ Len(arg.a) = 3
    /\ Len(C16_Groups) = 2
    /\ C16_Groups[1].name = "U+1F4CD Other"
    /\ Len(C16_Groups[2].sections) = 2

----------------------------------------------------------------------------
(* Claims about createCheckoutLink, eventUrl and the requests              *)

C17_Done == op = "createCheckoutLink" /\ pc = "done"
\* the integer a small number of the model stands for
C17_Int(v) == v.hi * MsPerDay + v.lo
C17_Q == C17_Int(Get(arg, "quantity"))
C17_Clamped == IF C17_Q < 1 THEN 1 ELSE IF C17_Q > 8 THEN 8 ELSE C17_Q
C17_ClampedDigit == <<"1", "2", "3", "4", "5", "6", "7", "8">>[C17_Clamped]
C17_Id == Get(arg, "listingId").s
C17_Lead == client.baseUrl \o <<"/", "c", "h", "e", "c", "k", "o", "u", "t", "/", "p", "r",
      "o", "c", "e", "s", "s", "?", "l", "i", "s", "t", "i", "n", "g", "=">>
C17_Trail == <<"&", "q", "u", "a", "n", "t", "i", "t", "y", "=">> \o <<C17_ClampedDigit>>
C17_Url == Get(ret.v, "url").s
\* the text of the URL between listing= and &quantity=<clamped quantity>
C17_Listing == SubSeq(C17_Url, Len(C17_Lead) + 1, Len(C17_Url) - Len(C17_Trail))

\* C17 as stated: createCheckoutLink issues no request and returns
\* quantity = max(1, min(8, q)) and
\* url = <baseHost>/checkout/process?listing=<id>&quantity=<clamped quantity>
\* for every integer q and listing id.
C17_LiteralListing ==
    C17_Done =>
        /\ fetched = <<>>
        /\ ret.t = "return"
        /\ Get(ret.v, "quantity") = Num(C17_Clamped)
        /\ C17_Url = C17_Lead \o C17_Id \o C17_Trail

\* C17 amended: createCheckoutLink issues no request; for a listing id
\* without an unpaired surrogate it returns quantity = max(1, min(8, q)), the
\* listing id as passed, and
\* url = <baseHost>/checkout/process?listing=<e>&quantity=<clamped quantity>
\* with e the percent-encoding of the id (the id itself when it holds
\* unreserved characters only); for an id with an unpaired surrogate it
\* throws URIError.
C17_EncodedListing ==
    C17_Done =>
        /\ fetched = <<>>
        /\ IF \E i \in 1..Len(C17_Id) : C17_Id[i] = LoneSurrogate
           THEN ret = Throw("URIError")
           ELSE /\ ret.t = "return"
                /\ Get(ret.v, "quantity") = Num(C17_Clamped)
                /\ Get(ret.v, "listingId") = Get(arg, "listingId")
                /\ StartsWith(C17_Url, C17_Lead)
                /\ Len(C17_Url) >= Len(C17_Lead) + Len(C17_Trail)
                /\ SubSeq(C17_Url, Len(C17_Url) - Len(C17_Trail) + 1, Len(C17_Url))
                      = C17_Trail
                /\ \A i \in 1..Len(C17_Listing) :
                      C17_Listing[i] \in UriUnreserved \cup {"%"}
                /\ C3_PercentDecode(C17_Listing) = C17_Id
                /\ (\A i \in 1..Len(C17_Id) : C17_Id[i] \in UriUnreserved) =>
                      C17_Listing = C17_Id

\* quantity 50 was clamped to 8 in the link of listing P2JO5OBX
C17_Witness ==
    /\ C17_Done
    /\ C17_Q = 50
    /\ ret.t = "return"
    /\ Get(ret.v, "quantity") = Num(8)
    /\ C17_Url = <<"h", "t", "t", "p", "s", ":", "/", "/", "t", "i", "x", "b", "i", "t", ".",
          "c", "o", "m", "/", "c", "h", "e", "c", "k", "o", "u", "t", "/", "p", "r", "o", "c",
                "e", "s", "s", "?", "l", "i", "s", "t", "i", "n", "g", "=", "P", "2", "J",
                      "O", "5", "O", "B", "X", "&", "q", "u", "a", "n", "t", "i", "t", "y",
                            "=", "8">>

C18_Done == op = "eventUrl" /\ pc = "done"
C18_Lead == client.baseUrl \o <<"/", "e", "v", "e", "n", "t", "s", "/">>
C18_HasSlash == \E i \in 1..Len(arg.s) : arg.s[i] = "/"
\* the text after the hyphen of a provider-prefixed identifier
C18_Bare(t) == SubSeq(t, (CHOOSE k \in 1..Len(t) : C2_PrefixedAt(t, k)) + 1, Len(t))

\* C18: eventUrl returns <baseHost>/events/<input> with the input unchanged
\* when the input holds a '/', and <baseHost>/events/<normalize(input)>
\* otherwise; a provider-prefixed id gives the URL of its bare form.
C18_EventUrl ==
    C18_Done =>
        /\ fetched = <<>>
        /\ IF C18_HasSlash
           THEN ret = Return(Str(C18_Lead \o arg.s))
           ELSE /\ ret = Return(Str(C18_Lead \o normalizeExternalEventId(arg).v.s))
                /\ C2_Prefixed(Trim(arg.s)) =>
                      /\ ret = Return(Str(C18_Lead \o C18_Bare(Trim(arg.s))))
                      /\ ret = eventUrl(client, Str(C18_Bare(Trim(arg.s))))

\* the URL of a padded provider-prefixed id is the URL of the bare id
C18_Witness ==
    /\ C18_Done
    /\ arg = Str(PaddedPrefixedId)
    /\ ret = Return(Str(<<"h", "t", "t", "p", "s", ":", "/", "/", "t", "i", "x", "b", "i",
          "t", ".", "c", "o", "m", "/", "e", "v", "e", "n", "t", "s", "/", "A", "B", "C", "1",
                "2", "3">>))

C19_Carries(req) ==
    /\ req.headers.Accept = <<"a", "p", "p", "l", "i", "c", "a", "t", "i", "o", "n", "/", "j",
          "s", "o", "n">>
    /\ req.headers.UserAgent = <<"@", "t", "i", "x", "b", "i", "t", "/", "s", "d", "k">>
    /\ Truthy(client.apiKey) =>
          req.headers.Authorization = Str(<<"B", "e", "a", "r", "e", "r",
                " ">> \o client.apiKey.s)

\* C19: every outbound request, primary or coordinates, carries
\* Accept: application/json, the client identifier header and, when an API
\* key is configured, the bearer token.
C19_AllRequestsCarryHeaders ==
    \A i \in 1..Len(fetched) : C19_Carries(fetched[i])

\* the same for the primary requests alone
C19_PrimaryRequestsCarryHeaders ==
    Len(fetched) >= 1 => C19_Carries(fetched[1])

\* the answer to the primary request, once it has been settled
C20_Primary == fetched[1].resp
C20_Settled == Len(fetched) >= 1 /\ C20_Primary.k # "pending"
\* the body of a failed primary answer as res.text() gives it, "" when the
\* read fails
C20_Body == IF C20_Primary.text.t = "throw" THEN <<>> ELSE C20_Primary.text.v
\* the status line at the head of the message
C20_Head ==
    DecimalDigits(0, C20_Primary.status) \o <<" ">> \o C20_Primary.statusText \o <<":", " ">>
\* the message after the status line
C20_Excerpt == SubSeq(ret.message, Len(C20_Head) + 1, Len(ret.message))

\* C20: when the primary request of a facade operation is answered with a
\* status outside 200..299 the operation fails with a TixBitApiError that
\* carries that status, the requested URL and a message made of the status
\* line and at most the first 300 characters of the body (the whole body
\* when it is no longer than that); when the call is rejected by the network
\* or aborted by the timeout the operation fails with an error that is not a
\* TixBitApiError and has no status
C20_TypedErrors ==
    C20_Settled =>
        /\ C20_Primary.k = "status" =>
              /\ pc = "done"
              /\ ret.t = "throw"
              /\ ret.err = "TixBitApiError"
              /\ ret.status = C20_Primary.status
              /\ ret.url = fetched[1].url
              /\ Len(ret.message) >= Len(C20_Head)
              /\ SubSeq(ret.message, 1, Len(C20_Head)) = C20_Head
              /\ Len(C20_Excerpt) <= 300
              /\ Len(C20_Excerpt) <= Len(C20_Body)
              /\ C20_Excerpt = SubSeq(C20_Body, 1, Len(C20_Excerpt))
              /\ Len(C20_Body) <= 300 => C20_Excerpt = C20_Body
              /\ Len(C20_Body) > 300 => Len(C20_Excerpt) = 300
        /\ C20_Primary.k \in {"reject", "abort"} =>
              /\ pc = "done"
              /\ ret.t = "throw"
              /\ ret.err # "TixBitApiError"
              /\ "status" \notin DOMAIN ret

\* a primary request answered 404 with a body longer than 300 characters has
\* failed the operation with the truncated message
C20_Witness ==
    /\ C20_Settled
    /\ C20_Primary.k = "status"
    /\ Len(C20_Body) > 300
    /\ pc = "done"
    /\ ret.t = "throw"
    /\ ret.err = "TixBitApiError"
    /\ Len(C20_Excerpt) = 300

\* a primary request that was aborted by the timeout has failed the operation
C20_WitnessTimeout ==
    /\ C20_Settled
    /\ C20_Primary.k = "abort"
    /\ ret = Throw("AbortError")

----------------------------------------------------------------------------
(* Claims about the rules of the section classifier                        *)

\* the name of input section i
C24_Name(i) == Get(arg.a[i], "name").s
\* the name is one or two digits and nothing else
C24_BareDigits(i) ==
    /\ Len(C24_Name(i)) \in {1, 2}
    /\ \A k \in 1..Len(C24_Name(i)) : C24_Name(i)[k] \in Digits
\* the name begins with 1 and two more digits
C24_Hundreds(i) ==
    /\ Len(C24_Name(i)) >= 3
    /\ C24_Name(i)[1] = "1"
    /\ C24_Name(i)[2] \in Digits
    /\ C24_Name(i)[3] \in Digits
\* the label of the group that holds input section i
C24_Label(i) ==
    LET g == CHOOSE g \in 1..Len(ret.v) :
                 \E k \in 1..Len(ret.v[g].sections) : ret.v[g].sections[k] = arg.a[i]
    IN  ret.v[g].name
C24_Placed(i) == C24_Label(i) \in {"U+1F3DF  Field Level", "U+2B07 Lower Level"}

\* C24: a section named by one or two bare digits is in the Field Level /
\* Lower Level group only when another section of the input is named by one
\* or two bare digits as well, and then the group is Field Level when some
\* section of the input has a 100s name and Lower Level otherwise
C24_Rule4 ==
    (op = "categorizeSections" /\ pc = "done") =>
        \A i \in 1..Len(arg.a) :
            C24_BareDigits(i) =>
                /\ C24_Placed(i) <=>
                      \E j \in 1..Len(arg.a) : j # i /\ C24_BareDigits(j)
                /\ C24_Placed(i) =>
                      C24_Label(i) = IF \E j \in 1..Len(arg.a) : C24_Hundreds(j)
                                     THEN "U+1F3DF  Field Level"
                                     ELSE "U+2B07 Lower Level"

\* what the classifier does: every section named by one or two bare digits
\* is placed there, alone or not
C24_Rule4WithoutOther ==
    (op = "categorizeSections" /\ pc = "done") =>
        \A i \in 1..Len(arg.a) :
            C24_BareDigits(i) =>
                C24_Label(i) = IF \E j \in 1..Len(arg.a) : C24_Hundreds(j)
                               THEN "U+1F3DF  Field Level"
                               ELSE "U+2B07 Lower Level"

\* the name of input section i in upper case
C25_Upper(i) == toUpperCase(Get(arg.a[i], "name").s)
\* n begins with p and a digit
C25_Then(n, p) ==
    Len(n) > Len(p) /\ SubSeq(n, 1, Len(p)) = p /\ n[Len(p) + 1] \in Digits
\* n begins with the digit d and two more digits
C25_Level(n, d) ==
    Len(n) >= 3 /\ n[1] = d /\ n[2] \in Digits /\ n[3] \in Digits
\* n contains p
C25_Has(n, p) == \E k \in 1..Len(n) : k + Len(p) - 1 <= Len(n) /\ SubSeq(n, k, k + Len(p) - 1) = p
\* the rules 1 to 8 as patterns of the upper-cased name n
C25_Matches(r, n) ==
    CASE r = 1 -> C25_Then(n, <<"F", "L", "O", "O", "R">>) \/ C25_Then(n, <<"F", "L", "R">>)
      [] r = 2 -> C25_Level(n, "1")
      [] r = 3 -> C25_Level(n, "2") \/ C25_Level(n, "3") \/ C25_Level(n, "4")
      [] r = 4 -> Len(n) \in {1, 2} /\ \A k \in 1..Len(n) : n[k] \in Digits
      [] r = 5 -> \E c \in {"L", "S", "T", "V"} : C25_Then(n, <<c>>)
      [] r = 6 -> (Len(n) >= 3 /\ SubSeq(n, 1, 3) = <<"S", "T", "E">>) \/ C25_Has(n, <<"S",
            "U", "I", "T", "E">>)
      [] r = 7 -> C25_Has(n, <<"S", "T", "A", "N", "D", "I", "N", "G">>) \/ n = <<"S", "R",
            "O">> \/ n = <<"U", "P", "P", "E", "R">>
      [] r = 8 -> n \in {<<"D", "E", "C", "K">>, <<"R", "O", "O", "F">>, <<"G", "A">>, <<"H",
            "A", "T">>}
      [] r = 9 -> TRUE
\* the first rule, in the order 1 to 9, that n matches
C25_FirstRule(n) == CHOOSE r \in 1..9 : C25_Matches(r, n) /\ \A q \in 1..(r - 1) : ~C25_Matches(q, n)
\* the group labels of rule r for the name n
C25_Labels(r, n) ==
    CASE r = 1 -> {"U+1F3C0 Floor"}
      [] r = 2 -> {"U+2B07 Lower Level (100s)"}
      [] r = 3 -> {IF n[1] = "2" THEN "U+2B06 Upper Level (200s)"
                   ELSE IF n[1] = "3" THEN "U+1F535 300 Level" ELSE "U+1F7E3 400 Level"}
      [] r = 4 -> {"U+1F3DF  Field Level", "U+2B07 Lower Level"}
      [] r = 5 -> {IF n[1] = "L" THEN "U+1FAB5 Loge"
                   ELSE IF n[1] = "S" THEN "U+2601 Sky"
                   ELSE IF n[1] = "T" THEN "U+1F307 Terrace" ELSE "U+1F440 Vista"}
      [] r = 6 -> {"U+1F3E2 Suites"}
      [] r = 7 -> {"U+1F9CD Standing Room"}
      [] r = 8 -> {"U+1F3AA General / Special"}
      [] r = 9 -> {"U+1F4CD Other"}

\* C25: every section is in the group of the first rule, in the order 1 to
\* 9, whose pattern its name matches without regard to case; a name that
\* matches none of the rules 1 to 8 is in Other
C25_FirstMatchWins ==
    (op = "categorizeSections" /\ pc = "done") =>
        \A i \in 1..Len(arg.a) :
            C24_Label(i) \in C25_Labels(C25_FirstRule(C25_Upper(i)), C25_Upper(i))

\* a section whose name matches a letter-digit rule and the SUITE rule is in
\* Loge, one whose name has SUITE and STANDING is in Suites, and one whose name
\* matches no rule is in Other
C25_Witness ==
    /\ op = "categorizeSections"
    /\ pc = "done"
    /\ Len(arg.a) = 3
    /\ C25_Matches(5, C25_Upper(1)) /\ C25_Matches(6, C25_Upper(1))
    /\ C24_Label(1) = "U+1FAB5 Loge"
    /\ C25_Matches(6, C25_Upper(2)) /\ C25_Matches(7, C25_Upper(2))
    /\ C24_Label(2) = "U+1F3E2 Suites"
    /\ C25_FirstRule(C25_Upper(3)) = 9
    /\ C24_Label(3) = "U+1F4CD Other"

----------------------------------------------------------------------------
(* describePosition                                                        *)

\* the integer a finite number of the model stands for
NumberValue(v) == v.hi * MsPerDay + v.lo

\* allSections.reduce((sum, s) => sum + s[f], 0)
RECURSIVE SumOf(_, _)
SumOf(allSections, f) ==
    IF allSections = <<>> THEN 0
    ELSE SumOf(SubSeq(allSections, 1, Len(allSections) - 1), f)
             + NumberValue(Get(allSections[Len(allSections)], f))

\* section[f] - sum / length as the fraction num / den, den > 0
OffsetFromCenter(section, allSections, f) ==
    [num |-> Len(allSections) * NumberValue(Get(section, f)) - SumOf(allSections, f),
     den |-> Len(allSections)]

PositionThreshold == 50

\* the comparison with <= in place of <
AbsBelow_orEqual(d, limit) ==
    (IF d.num < 0 THEN 0 - d.num ELSE d.num) <= limit * d.den

\* Math.abs(d) < limit
AbsBelow(d, limit) ==
    (IF d.num < 0 THEN 0 - d.num ELSE d.num) < limit * d.den

\* [vertical, horizontal].filter((p) => p !== "center").join(", ")
JoinNonCenter(vertical, horizontal) ==
    IF vertical = <<"c", "e", "n", "t", "e", "r">> THEN horizontal
    ELSE IF horizontal = <<"c", "e", "n", "t", "e", "r">> THEN vertical
    ELSE vertical \o <<",", " ">> \o horizontal

describePosition(section, allSections) ==
    IF allSections = <<>> THEN Str(<<"p", "o", "s", "i", "t", "i", "o", "n", " ", "u", "n",
          "k", "n", "o", "w", "n">>)
    ELSE
    LET dx == OffsetFromCenter(section, allSections, "x")
        dy == OffsetFromCenter(section, allSections, "y")
        horizontal == IF AbsBelow(dx, PositionThreshold) THEN <<"c", "e", "n", "t", "e", "r">>
                      ELSE IF dx.num < 0 THEN <<"l", "e", "f", "t", " ", "s", "i", "d",
                            "e">> ELSE <<"r", "i", "g", "h", "t", " ", "s", "i", "d", "e">>
        vertical == IF AbsBelow(dy, PositionThreshold) THEN <<"c", "e", "n", "t", "e", "r">>
                    ELSE IF dy.num < 0 THEN <<"n", "e", "a", "r", " ", "s", "i", "d", "e",
                          " ", "(", "c", "l", "o", "s", "e", "r", " ", "t", "o", " ", "s",
                                "t", "a", "g", "e", "/", "c", "o", "u", "r", "t", ")">>
                    ELSE <<"f", "a", "r", " ", "s", "i", "d", "e">>
    IN  IF horizontal = <<"c", "e", "n", "t", "e", "r">> /\ vertical = <<"c", "e", "n", "t",
          "e", "r">>
        THEN Str(<<"c", "e", "n", "t", "e", "r", " ", "o", "f", " ", "v", "e", "n", "u", "e">>)
        ELSE Str(JoinNonCenter(vertical, horizontal))

MaxPositionSections == 3

\* label coordinates: offsets of exactly 50 and just under it occur
PositionXs == {0, 1, 50, 100}
PositionYs == {0, 100}

PositionSection(x, y) ==
    Obj([id |-> Str(<<"1">>), name |-> Str(<<"A">>), x |-> Num(x), y |-> Num(y),
         labels |-> Arr(<<>>), shape_path |-> Null])

\* arg is the target section with the list s followed by at most k more
RECURSIVE PositionComposed(_, _)
PositionComposed(s, k) ==
    \/ \E x \in PositionXs, y \in PositionYs :
          arg = [section |-> PositionSection(x, y), allSections |-> s]
    \/ k > 0 /\ \E x \in PositionXs, y \in PositionYs :
                   PositionComposed(Append(s, PositionSection(x, y)), k - 1)

InitPosition ==
    /\ op = "describePosition"
    /\ PositionComposed(<<>>, MaxPositionSections)
    /\ pc = "call"
    /\ fetched = <<>>
    /\ client = TixBitClient(EmptyObj)
    /\ ret = Pending

ApplyDescribePosition ==
    /\ op = "describePosition"
    /\ pc = "call"
    /\ ret' = Return(describePosition(arg.section, arg.allSections))
    /\ pc' = "done"
    /\ UNCHANGED <<op, arg, fetched, client>>

NextPosition == ApplyDescribePosition

SpecPosition == InitPosition /\ [][NextPosition]_vars

\* the length of the list and the sum of its coordinates on the axis f
C26_N == Len(arg.allSections)
RECURSIVE C26_Sum(_, _)
C26_Sum(k, f) ==
    IF k = 0 THEN 0 ELSE C26_Sum(k - 1, f) + NumberValue(Get(arg.allSections[k], f))
\* N times the offset of the target from the centroid, on the axis f
C26_Scaled(f) == C26_N * NumberValue(Get(arg.section, f)) - C26_Sum(C26_N, f)
\* the descriptor of the axis f: below, names the side of a negative offset
C26_Descriptor(f, below, above) ==
    IF -50 * C26_N < C26_Scaled(f) /\ C26_Scaled(f) < 50 * C26_N THEN <<"c", "e", "n", "t",
          "e", "r">>
    ELSE IF C26_Scaled(f) < 0 THEN below ELSE above
C26_Horizontal == C26_Descriptor("x", <<"l", "e", "f", "t", " ", "s", "i", "d", "e">>, <<"r",
      "i", "g", "h", "t", " ", "s", "i", "d", "e">>)
C26_Vertical ==
    C26_Descriptor("y", <<"n", "e", "a", "r", " ", "s", "i", "d", "e", " ", "(", "c", "l",
          "o", "s", "e", "r", " ", "t", "o", " ", "s", "t", "a", "g", "e", "/", "c", "o", "u",
                "r", "t", ")">>, <<"f", "a", "r", " ", "s", "i", "d", "e">>)

\* C26: describePosition gives "position unknown" for an empty list; else,
\* with (dx, dy) the offset of the target from the mean of the sections,
\* each axis is center iff the offset is strictly within 50 of zero, else
\* left side / near side below zero and right side / far side above; the
\* output is "center of venue" when both are center, else the non-center
\* descriptors, vertical first, joined by a comma
C26_Position ==
    (op = "describePosition" /\ pc = "done") =>
        ret = Return(Str(
            IF C26_N = 0 THEN <<"p", "o", "s", "i", "t", "i", "o", "n", " ", "u", "n", "k",
                  "n", "o", "w", "n">>
            ELSE IF C26_Horizontal = <<"c", "e", "n", "t", "e", "r">> /\ C26_Vertical = <<"c",
                  "e", "n", "t", "e", "r">>
            THEN <<"c", "e", "n", "t", "e", "r", " ", "o", "f", " ", "v", "e", "n", "u", "e">>
            ELSE IF C26_Vertical = <<"c", "e", "n", "t", "e", "r">> THEN C26_Horizontal
            ELSE IF C26_Horizontal = <<"c", "e", "n", "t", "e", "r">> THEN C26_Vertical
            ELSE C26_Vertical \o <<",", " ">> \o C26_Horizontal))

\* a target exactly 50 right of and exactly 50 beyond the centroid was
\* described by both sides
C26_Witness ==
    /\ op = "describePosition"
    /\ pc = "done"
    /\ C26_N = 2
    /\ C26_Scaled("x") = 50 * C26_N
    /\ C26_Scaled("y") = 50 * C26_N
    /\ ret = Return(Str(<<"f", "a", "r", " ", "s", "i", "d", "e", ",", " ", "r", "i", "g",
          "h", "t", " ", "s", "i", "d", "e">>))

\* the record the commercial and placement fields are read from: the
\* attributes value when the listing has one, else the listing itself
C27_Source ==
    IF Get(arg, "attributes").t \in {"undefined", "null"} THEN arg
    ELSE Get(arg, "attributes")
\* the upstream keys of an output field, in the order they are tried
C27_Keys(f) ==
    CASE f = "price" -> <<"price_per_ticket", "price">>
      [] f = "quantity" -> <<"quantity", "available_quantity">>
      [] f = "delivery_method" -> <<"delivery_method", "delivery_type">>
      [] OTHER -> <<f>>
C27_Usable(f, v) ==
    CASE f \in {"price", "quantity"} -> v.t = "number" /\ v.fin
      [] f \in {"quantities_list", "splits"} -> v.t = "array"
      [] OTHER -> v.t = "string" /\ v.s # <<>>
C27_Default(f) ==
    CASE f \in {"price", "quantity"} -> Num(0)
      [] f \in {"quantities_list", "splits"} -> Arr(<<>>)
      [] f = "listing_hash" -> Str(<<>>)
      [] OTHER -> Null
\* the first usable value of the keys of f in the record src, else the default
C27_Read(f, src) ==
    LET keys == C27_Keys(f)
        hits == {k \in 1..Len(keys) : C27_Usable(f, Get(src, keys[k]))}
    IN  IF hits = {} THEN C27_Default(f)
        ELSE Get(src, keys[CHOOSE k \in hits : \A j \in hits : k <= j])
C27_Fields ==
    {"price", "quantity", "quantities_list", "splits", "section", "row",
     "seat_numbers", "listing_hash", "notes", "delivery_method"}

----------------------------------------------------------------------------
(* Claims about the requests of getSeatmap over time                       *)

\* getSeatmap has returned after fetching the coordinates document
C28_Fetched ==
    op = "getSeatmap" /\ pc = "done" /\ Len(fetched) = 2 /\ ret.t = "return"

\* C28: when getSeatmap fetches the coordinates document, the URL it
\* requests is the coordinates_url of the result it returns, whether the
\* upstream value is absolute, begins with a slash or is relative without one
C28_RequestedUrlIsReported ==
    C28_Fetched => Str(fetched[2].url) = Get(ret.v, "coordinates_url")

\* the same for the upstream values that are absolute or begin with a slash
C28_RequestedUrlIsReportedWhenRooted ==
    (C28_Fetched /\ (StartsWith(CoordinatesUrlOf(fetched[1].resp.body).s, <<"h", "t", "t", "p">>)
                     \/ StartsWith(CoordinatesUrlOf(fetched[1].resp.body).s, <<"/">>))) =>
        Str(fetched[2].url) = Get(ret.v, "coordinates_url")

\* getSeatmap has returned a result
C30_Returned == op = "getSeatmap" /\ pc = "done" /\ ret.t = "return"
C30_Zones == Get(ret.v, "zones").a
\* the zones of the coordinates document, none when it was not fetched or
\* its body has no zones array
C30_DocZones ==
    IF Len(fetched) = 2 /\ fetched[2].resp.k = "json"
          /\ Get(fetched[2].resp.body, "zones").t = "array"
    THEN Get(fetched[2].resp.body, "zones").a
    ELSE <<>>
\* the sections of zone i of the document
C30_DocSections(i) ==
    IF Get(C30_DocZones[i], "sections").t = "array"
    THEN Get(C30_DocZones[i], "sections").a
    ELSE <<>>
\* the result holds every zone and every section of the document, in order
C30_Complete ==
    /\ Len(C30_Zones) = Len(C30_DocZones)
    /\ \A i \in 1..Len(C30_Zones) :
          /\ Get(C30_Zones[i], "id") = Get(C30_DocZones[i], "id")
          /\ Len(Get(C30_Zones[i], "sections").a) = Len(C30_DocSections(i))
          /\ \A j \in 1..Len(C30_DocSections(i)) :
                /\ Get(Get(C30_Zones[i], "sections").a[j], "id")
                      = Get(C30_DocSections(i)[j], "id")
                /\ Get(Get(C30_Zones[i], "sections").a[j], "name")
                      = Get(C30_DocSections(i)[j], "name")

\* C30: the zones of a getSeatmap result are every zone with every section
\* of the coordinates document, in document order, or the empty list, never
\* a part of the document; section_names is empty whenever zones is
C30_AllOrNothing ==
    C30_Returned =>
        /\ C30_Zones = <<>> \/ C30_Complete
        /\ C30_Zones = <<>> => Get(ret.v, "section_names").a = <<>>

\* a document whose first zone parses and whose second zone holds a section
\* that does not gave a result with no zones
C30_Witness ==
    /\ C30_Returned
    /\ Len(C30_DocZones) = 2
    /\ ParseZone(C30_DocZones[1]).t = "return"
    /\ ParseZone(C30_DocZones[2]).t = "throw"
    /\ C30_DocZones[2] # Null
    /\ C30_Zones = <<>>

\* a document of two zones that parse gave both
C30_WitnessComplete ==
    /\ C30_Returned
    /\ Len(C30_DocZones) = 2
    /\ Len(C30_Zones) = 2
    /\ Len(C30_DocSections(1)) = 2

C21_Network == op \in {"searchEvents", "browse", "getListings", "getSeatmap"}
\* the requests of the operation that have not been answered
C21_InFlight == {i \in 1..Len(fetched) : fetched[i].resp = InFlight}
\* the primary request was answered by a failure: the network, the
\* timeout, a status outside 200..299 or a body that is not JSON
C21_PrimaryFailed ==
    Len(fetched) >= 1 /\ fetched[1].resp.k \in {"reject", "abort", "status", "badjson"}
\* at most one primary request, a second request only by getSeatmap and
\* only after the primary one was answered with a JSON body, at most one
\* request in flight, and after a failed primary request none at all, the
\* failure being the outcome of the operation
C21_Sequenced ==
    /\ Len(fetched) <= (IF op = "getSeatmap" THEN 2 ELSE 1)
    /\ Len(fetched) = 2 => fetched[1].resp.k = "json"
    /\ Cardinality(C21_InFlight) <= 1
    /\ C21_PrimaryFailed =>
          /\ Len(fetched) = 1
          /\ pc = "done"
          /\ ret = RequestOutcome(fetched[1], fetched[1].resp)
          /\ ret.t = "throw"

\* C21 as stated: every operation that talks to the upstream issues exactly
\* one primary request and re-issues none, getSeatmap at most one more and
\* only after the primary answer, one request in flight at most, and a
\* failed primary request ends the operation with that failure
C21_ExactlyOnePrimary ==
    C21_Network =>
        /\ C21_Sequenced
        /\ pc # "call" => Len(fetched) >= 1

\* C21 amended: as above, but an operation whose path cannot be built (the
\* identifier holds an unpaired surrogate, encodeURIComponent throws) fails
\* with that error and issues no request at all
C21_AtMostOnePrimary ==
    C21_Network =>
        /\ C21_Sequenced
        /\ pc # "call" =>
              \/ Len(fetched) >= 1
              \/ pc = "done" /\ ret = Throw("URIError")

\* getSeatmap is waiting for the coordinates document, its only request in
\* flight, after the primary request was answered
C21_Witness ==
    /\ op = "getSeatmap"
    /\ pc = "awaitCoords"
    /\ Len(fetched) = 2
    /\ fetched[1].resp.k = "json"
    /\ C21_InFlight = {2}

\* a primary request failed and ended the operation
C21_WitnessFailed ==
    /\ C21_Network
    /\ C21_PrimaryFailed
    /\ pc = "done"

----------------------------------------------------------------------------
(* SpecConcurrent: MaxCalls facade operations in flight at once on one      *)
(* client, every outbound call with its own AbortController and timer.     *)
(* op, arg, pc, fetched and ret hold one entry per operation. pc of an     *)
(* operation: "call" before it runs, "fetch" / "coordsFetch" awaiting      *)
(* fetch(), "json" / "coordsJson" awaiting res.json(), "text" awaiting     *)
(* res.text(), "settled" with its outcome, "done" outcome delivered.        *)

MaxCalls == 2

\* the operations in flight
Calls == DOMAIN op

\* the call of fetch with no timer beside it
Timed_withoutTimer(call) ==
    [url |-> call.url, headers |-> call.headers, resp |-> call.resp,
     timer |-> "cleared", aborted |-> FALSE]

\* const controller = new AbortController();
\* const timer = setTimeout(() => controller.abort(), this.timeoutMs)
\* beside the call of fetch
Timed(call) ==
    [url |-> call.url, headers |-> call.headers, resp |-> call.resp,
     timer |-> "armed", aborted |-> FALSE]

\* a finally block that leaves the timer as it is
ClearTimeout_skipped(call) == call

\* finally { clearTimeout(timer) }
ClearTimeout(call) ==
    IF call.timer = "armed" THEN [call EXCEPT !.timer = "cleared"] ELSE call

\* the callback of the timer of one call aborting every call in flight
Abort_everyCall(f, i, k) ==
    [j \in Calls |->
        [n \in 1..Len(f[j]) |->
            IF j = i /\ n = k THEN [f[j][n] EXCEPT !.timer = "fired", !.aborted = TRUE]
            ELSE IF n = Len(f[j]) /\ pc[j] # "done" THEN [f[j][n] EXCEPT !.aborted = TRUE]
            ELSE f[j][n]]]

\* the timer of call k of operation i runs its callback: controller.abort()
Abort(f, i, k) == [f EXCEPT ![i][k].timer = "fired", ![i][k].aborted = TRUE]

\* the parameters the operations are called with
ConcurrentParams(o) ==
    CASE o = "searchEvents" -> Obj([query |-> Str(<<"H", "a", "w", "k", "s">>)])
      [] o = "browse" -> Obj([city |-> Str(<<"N", "e", "w", " ", "Y", "o", "r", "k">>)])
      [] o = "getListings" -> Obj([eventId |-> Str(PrefixedId)])
      [] o = "getSeatmap" -> Obj([eventId |-> Str(BareId)])

ConcurrentSeatmapBody(has) ==
    Obj([success |-> Bool(TRUE), event_id |-> Str(PrefixedId), venue_id |-> Str(<<"v", "1">>),
         venue_name |-> Str(<<"S", "t", "a", "t", "e", " ", "F", "a", "r", "m", " ", "A", "r",
               "e", "n", "a">>), configuration_id |-> Str(<<"c", "1">>),
         configuration_name |-> Str(<<"B", "a", "s", "k", "e", "t", "b", "a", "l", "l">>),
         coordinates_url |-> Str(<<"/", "a", "p", "i", "/", "s", "e", "a", "t", "m", "a", "p",
               "/", "a", "s", "s", "e", "t", "s", "?", "u", "r", "l", "=", "c">>),
         has_coordinates |-> Bool(has), capacity |-> Num(18000),
         venue_data |-> SampleVenue])

\* the JSON bodies the upstream answers a call of phase p of operation o with
ConcurrentBodies(o, p) ==
    CASE p = "coordsJson" ->
            { Obj([zones |-> Arr(<< Obj([id |-> Str(<<"z", "1">>), name |-> Str(<<"S", "e",
                  "c", "t", "i", "o", "n">>),
                                         sections |-> Arr(<<SectionSamples[1]>>)]) >>)]) }
      [] o = "getSeatmap" -> { ConcurrentSeatmapBody(TRUE), ConcurrentSeatmapBody(FALSE) }
      [] o = "getListings" ->
            { Obj([success |-> Bool(TRUE), meta |-> SampleMeta,
                   data |-> Arr(<< Obj([id |-> Str(<<"L", "1">>), price |-> Num(25),
                                        quantity |-> Num(2)]) >>)]) }
      [] OTHER ->
            { Obj([events |-> Arr(<< Obj([id |-> Str(PrefixedId),
                                          name |-> Str(<<"H", "a", "w", "k", "s">>)]) >>),
                   pagination |-> SamplePagination]) }

\* the status lines of the answers outside 200..299
ConcurrentStatuses == { StatusResponse(404, <<"N", "o", "t", " ", "F", "o", "u", "n",
      "d">>, Pending) }

\* what res.text() gives: the body, or a failure to read it
ConcurrentTexts == { Return(<<"n", "o", " ", "s", "u", "c", "h", " ", "e", "v", "e", "n",
      "t">>), Throw("TypeError") }

\* the operations in the order of the class, to name them in one order only
OpOrder == <<"searchEvents", "browse", "getListings", "getSeatmap">>

\* n operations in flight on a client of the set clients, listed in the
\* order of OpOrder: which of two equal callers is the first makes no
\* difference
InitCalls(n, clients) ==
    /\ \E r \in [1..n -> 1..Len(OpOrder)] :
          /\ \A i, j \in 1..n : i < j => r[i] <= r[j]
          /\ op = [i \in 1..n |-> OpOrder[r[i]]]
    /\ arg = [i \in 1..n |-> ConcurrentParams(op[i])]
    /\ pc = [i \in 1..n |-> "call"]
    /\ fetched = [i \in 1..n |-> <<>>]
    /\ client \in clients
    /\ ret = [i \in 1..n |-> Pending]

InitConcurrent == InitCalls(MaxCalls, {TixBitClient(EmptyObj)})

\* one operation on its own, on either client
InitTimed == InitCalls(1, FacadeClients)

\* the call in flight of operation i
Current(i) == fetched[i][Len(fetched[i])]

PathOf(i) ==
    CASE op[i] = "searchEvents" -> SearchEventsPath(arg[i])
      [] op[i] = "browse" -> BrowsePath(arg[i])
      [] op[i] = "getListings" -> ListingsPath(arg[i])
      [] op[i] = "getSeatmap" -> SeatmapPath(arg[i])

\* the value operation i returns for the body data of its primary request
\* when it makes no further request
ResultOf(i, data) ==
    CASE op[i] = "searchEvents" -> SearchEventsResult(data)
      [] op[i] = "browse" -> BrowseEventsResult(data)
      [] op[i] = "getListings" -> GetListingsResult(arg[i], data)
      [] op[i] = "getSeatmap" -> GetSeatmapResult(client, data, Arr(<<>>))

\* operation i runs up to its first await
StartCall(i) ==
    /\ pc[i] = "call"
    /\ LET path == PathOf(i)
       IN  IF path.t = "throw"
           THEN /\ ret' = [ret EXCEPT ![i] = path]
                /\ pc' = [pc EXCEPT ![i] = "done"]
                /\ fetched' = fetched
           ELSE /\ fetched' = [fetched EXCEPT
                                 ![i] = <<Timed(Issue(Request(client, path.v.s)))>>]
                /\ pc' = [pc EXCEPT ![i] = "fetch"]
                /\ ret' = ret
    /\ UNCHANGED <<op, arg, client>>

\* the call in flight of operation i ends with resp: its finally block
\* runs, and getSeatmap goes on to fetch the coordinates document or the
\* operation has its outcome ("settled")
Settle(i, resp) ==
    LET n == Len(fetched[i])
        ended == [fetched[i] EXCEPT ![n] = ClearTimeout([@ EXCEPT !.resp = resp])]
    IN  /\ IF /\ n = 1
              /\ op[i] = "getSeatmap"
              /\ resp.k = "json"
              /\ ~IsNullish(resp.body)
              /\ WantsCoordinates(resp.body)
              /\ IsString(CoordinatesUrlOf(resp.body))
           THEN /\ fetched' = [fetched EXCEPT ![i] = Append(ended,
                      Timed(Issue(CoordinatesRequest(client,
                                      CoordinatesUrlOf(resp.body).s))))]
                /\ pc' = [pc EXCEPT ![i] = "coordsFetch"]
           ELSE /\ fetched' = [fetched EXCEPT ![i] = ended]
                /\ pc' = [pc EXCEPT ![i] = "settled"]
        /\ ret' = ret

\* what operation i gives its caller after the answers to its calls
OutcomeOf(i) ==
    LET data == RequestOutcome(fetched[i][1], fetched[i][1].resp)
    IN  IF data.t = "throw" THEN data
        ELSE IF op[i] = "getSeatmap" /\ IsNullish(data.v) THEN Throw("TypeError")
        ELSE IF Len(fetched[i]) = 2
        THEN GetSeatmapResult(client, data.v,
                              ZonesOrEmpty(ParseCoordinates(fetched[i][2].resp)))
        ELSE ResultOf(i, data.v)

\* the promise of operation i is resolved or rejected: the caller has the
\* outcome
Deliver(i) ==
    /\ pc[i] = "settled"
    /\ ret' = [ret EXCEPT ![i] = OutcomeOf(i)]
    /\ pc' = [pc EXCEPT ![i] = "done"]
    /\ UNCHANGED <<op, arg, fetched, client>>

\* the steps of Deliver(i), by what they do to pc: no other action takes
\* an operation from "settled" to "done"
Delivered(i) ==
    /\ pc[i] = "settled"
    /\ pc' = [pc EXCEPT ![i] = "done"]

\* fetch() of operation i resolves with the status line of the answer
FetchResolves(i) ==
    /\ pc[i] \in {"fetch", "coordsFetch"}
    /\ ~Current(i).aborted
    /\ \/ /\ fetched' = [fetched EXCEPT ![i][Len(fetched[i])].resp = [k |-> "reading"]]
          /\ pc' = [pc EXCEPT ![i] = IF pc[i] = "fetch" THEN "json" ELSE "coordsJson"]
          /\ ret' = ret
       \/ \E r \in ConcurrentStatuses :
             IF pc[i] = "fetch"
             THEN /\ fetched' = [fetched EXCEPT ![i][Len(fetched[i])].resp = r]
                  /\ pc' = [pc EXCEPT ![i] = "text"]
                  /\ ret' = ret
             ELSE Settle(i, r)
    /\ UNCHANGED <<op, arg, client>>

\* fetch() of operation i rejects: the network failed
FetchRejects(i) ==
    /\ pc[i] \in {"fetch", "coordsFetch"}
    /\ ~Current(i).aborted
    /\ Settle(i, [k |-> "reject"])
    /\ UNCHANGED <<op, arg, client>>

\* res.json() of operation i resolves with the parsed body, or rejects
\* because the body is not JSON
BodyArrives(i) ==
    /\ pc[i] \in {"json", "coordsJson"}
    /\ ~Current(i).aborted
    /\ \/ \E body \in ConcurrentBodies(op[i], pc[i]) : Settle(i, JsonResponse(body))
       \/ Settle(i, [k |-> "badjson"])
    /\ UNCHANGED <<op, arg, client>>

\* res.text() of operation i resolves or rejects
TextArrives(i) ==
    /\ pc[i] = "text"
    /\ ~Current(i).aborted
    /\ \E text \in ConcurrentTexts : Settle(i, [Current(i).resp EXCEPT !.text = text])
    /\ UNCHANGED <<op, arg, client>>

\* the timer of a call of operation i fires
TimerFires(i) ==
    /\ \E k \in 1..Len(fetched[i]) :
          /\ fetched[i][k].timer = "armed"
          /\ fetched' = Abort(fetched, i, k)
    /\ UNCHANGED <<op, arg, pc, client, ret>>

\* the pending promise of an aborted call of operation i rejects
AbortRejects(i) ==
    /\ pc[i] \in {"fetch", "json", "text", "coordsFetch", "coordsJson"}
    /\ Current(i).aborted
    /\ IF pc[i] = "text"
       THEN Settle(i, [Current(i).resp EXCEPT !.text = Throw("AbortError")])
       ELSE Settle(i, [k |-> "abort"])
    /\ UNCHANGED <<op, arg, client>>

NextConcurrent ==
    \/ \E i \in Calls : StartCall(i)
    \/ \E i \in Calls : FetchResolves(i)
    \/ \E i \in Calls : FetchRejects(i)
    \/ \E i \in Calls : BodyArrives(i)
    \/ \E i \in Calls : TextArrives(i)
    \/ \E i \in Calls : TimerFires(i)
    \/ \E i \in Calls : AbortRejects(i)
    \/ \E i \in Calls : Deliver(i)

SpecConcurrent == InitConcurrent /\ [][NextConcurrent]_vars

\* one operation whose timers eventually run their callbacks unless they are
\* cleared, whose aborted calls eventually reject and whose outcome reaches
\* the caller; the answers of the upstream may never come
SpecTimed ==
    /\ InitTimed
    /\ [][NextConcurrent]_vars
    /\ WF_vars(TimerFires(1))
    /\ WF_vars(AbortRejects(1))
    /\ WF_pc(Delivered(1))

----------------------------------------------------------------------------
(* Claims about timers, termination and concurrent operations              *)

\* call k of operation i has finished: the operation has gone past it
C29_Finished(i, k) == k < Len(fetched[i]) \/ pc[i] \in {"settled", "done"}
\* the call ended because it was aborted
C29_EndedByAbort(call) ==
    \/ call.resp.k = "abort"
    \/ call.resp.k = "status" /\ call.resp.text = Throw("AbortError")

\* C29: a call that has finished, whatever its end, has no timer pending,
\* and its timer has run only if the call ended by that abort: the timer is
\* cancelled before the operation goes on, never fires for a finished call,
\* and none is pending once the operation has settled
C29_TimerCleanup ==
    \A i \in Calls : \A k \in 1..Len(fetched[i]) :
        C29_Finished(i, k) =>
            /\ fetched[i][k].timer # "armed"
            /\ fetched[i][k].timer = "fired" => C29_EndedByAbort(fetched[i][k])
            /\ fetched[i][k].aborted => C29_EndedByAbort(fetched[i][k])

\* a getSeatmap has returned after two calls, the first ended by its JSON
\* body and the second by a status outside 200..299, both timers cancelled
C29_Witness ==
    \E i \in Calls :
        /\ pc[i] = "done"
        /\ ret[i].t = "return"
        /\ Len(fetched[i]) = 2
        /\ fetched[i][1].resp.k = "json"
        /\ fetched[i][2].resp.k = "status"
        /\ fetched[i][1].timer = "cleared"
        /\ fetched[i][2].timer = "cleared"

\* a primary call whose timer has fired makes the operation fail, and a
\* coordinates call whose timer has fired gives a result with no zones
C22_TimeoutOutcome ==
    \A i \in Calls :
        (pc[i] = "done" /\ Len(fetched[i]) >= 1) =>
            /\ fetched[i][1].timer = "fired" => ret[i].t = "throw"
            /\ (Len(fetched[i]) = 2 /\ fetched[i][2].timer = "fired") =>
                  /\ ret[i].t = "return"
                  /\ Get(ret[i].v, "zones") = Arr(<<>>)

\* C22: with timers that fire unless cleared and aborted calls that reject,
\* every operation that has been called eventually returns or throws, even
\* when the upstream never answers; a primary call that exceeds the timeout
\* fails the operation, a coordinates call that does gives zones = []
C22_NoHang ==
    /\ []C22_TimeoutOutcome
    /\ (pc[1] # "call") ~> (pc[1] = "done")

\* a getSeatmap returned without zones after the timer of its coordinates
\* call fired
C22_Witness ==
    /\ pc[1] = "done"
    /\ Len(fetched[1]) = 2
    /\ fetched[1][2].timer = "fired"
    /\ fetched[1][2].resp.k = "abort"
    /\ ret[1].t = "return"
    /\ Get(ret[1].v, "zones") = Arr(<<>>)

\* an operation failed after the timer of its primary call fired
C22_WitnessPrimary ==
    /\ pc[1] = "done"
    /\ Len(fetched[1]) = 1
    /\ fetched[1][1].timer = "fired"
    /\ ret[1] = Throw("AbortError")

\* the outcome of operation i by its own parameters and the answers to its
\* own calls
C23_Outcome(i) ==
    IF fetched[i] = <<>> THEN PathOf(i)
    ELSE LET data == RequestOutcome(fetched[i][1], fetched[i][1].resp)
         IN  IF data.t = "throw" THEN data
             ELSE IF Len(fetched[i]) = 2
             THEN GetSeatmapResult(client, data.v,
                                   ZonesOrEmpty(ParseCoordinates(fetched[i][2].resp)))
             ELSE ResultOf(i, data.v)
\* an operation is settled by its own answers, and a call is aborted by its
\* own timer only
C23_OwnOutcome ==
    \A i \in Calls :
        /\ pc[i] = "done" => ret[i] = C23_Outcome(i)
        /\ \A k \in 1..Len(fetched[i]) :
              /\ fetched[i][k].aborted => fetched[i][k].timer = "fired"
              /\ fetched[i][k].resp.k = "abort" => fetched[i][k].timer = "fired"
C23_Changed(i) ==
    <<pc[i], fetched[i], ret[i]>>' # <<pc[i], fetched[i], ret[i]>>
\* a step is the step of one operation and leaves the client as it is
C23_OneAtATime ==
    /\ client' = client
    /\ op' = op
    /\ arg' = arg
    /\ \A i, j \in Calls : (C23_Changed(i) /\ C23_Changed(j)) => i = j

\* C23: operations in flight at once on one client are independent: under
\* every interleaving of answers, timeouts and failures the outcome of each
\* is what its own parameters and answers give, the timeout or failure of
\* one changes nothing of another, and the configuration of the client
\* never changes
C23_Independent == []C23_OwnOutcome /\ [][C23_OneAtATime]_vars

\* one operation has failed by its timeout and the other, called before
\* that, has returned a result
C23_Witness ==
    \E i, j \in Calls :
        /\ pc[i] = "done"
        /\ ret[i] = Throw("AbortError")
        /\ fetched[i][1].timer = "fired"
        /\ pc[j] = "done"
        /\ ret[j].t = "return"
        /\ fetched[j][1].timer = "cleared"

=============================================================================
